---- MODULE Spec2Model ----
(***************************************************************************)
(* Model of the portfolio optimisation engine and the risk engine of the   *)
(* api-service (optimization_engine.py, risk_engine.py, main.py).          *)
(*                                                                         *)
(* Real numbers are fixed-point integers.  Units:                          *)
(*   - portfolio weights: 1/One (One = 12, so 0.25 = CapTight = 3);        *)
(*   - optimal-portfolio risks: RiskStep * 1e-10, so that the Sharpe       *)
(*     denominator max(risk, 1e-10) is Max(risk * RiskStep, SharpeEps);    *)
(*   - a ratio is kept as a pair <<numerator, denominator>>.               *)
(* An optional value is a tuple: None (and NaN) is << >>, a present x is   *)
(* Some(x) = <<x>>.                                                        *)
(***************************************************************************)
EXTENDS Integers, Sequences, FiniteSets, TLC

VARIABLES
    \* find_optimal_portfolio: arguments and returned dict
    frontier_risks, frontier_returns, frontier_weights,
    risk_free_rate, target_return, target_risk, opt_result, opt_pc,
    \* compute_efficient_frontier: arguments
    cma_data, mode, caps_template, custom_assets, n_points,
    \* compute_efficient_frontier: locals, solver results so far, returned dict
    ef_pc, sub, solved, risks, rets, weights_list, x0, ef_result,
    \* risk engine: the operation called, its weight arguments, the weights it
    \* used and what it returned
    rk_pc, rk_op, rk_weights, rk_bench, rk_used, rk_result,
    \* the numerical operations (covariance estimators, PSD repair, tracking
    \* error, contributions, factor betas): the operation called, its
    \* arguments as a record under their source names, and what it returned
    \* or raised
    nm_pc, nm_op, nm_args, nm_result

opt_vars == <<frontier_risks, frontier_returns, frontier_weights,
              risk_free_rate, target_return, target_risk, opt_result, opt_pc>>

ef_args == <<cma_data, mode, caps_template, custom_assets, n_points>>
ef_locals == <<sub, solved, risks, rets, weights_list, x0>>
ef_vars == <<ef_args, ef_pc, ef_locals, ef_result>>

rk_vars == <<rk_pc, rk_op, rk_weights, rk_bench, rk_used, rk_result>>

nm_vars == <<nm_pc, nm_op, nm_args, nm_result>>

vars == <<opt_vars, ef_vars, rk_vars, nm_vars>>

\* no numerical operation is called
NmIdle ==
    /\ nm_pc = "off" /\ nm_op = "none" /\ nm_args = << >> /\ nm_result = << >>

None == << >>
NaN == << >>
Some(x) == <<x>>
Val(o) == o[1]

Max(a, b) == IF a >= b THEN a ELSE b
Min(a, b) == IF a <= b THEN a ELSE b

(***************************************************************************)
(* Bounds of the model.                                                    *)
(***************************************************************************)
MaxPoints == 3      \* longest frontier handed to find_optimal_portfolio
MaxVal == 1         \* risks and returns of frontier points range over 0..MaxVal
RiskStep == 4       \* one risk unit, in multiples of the Sharpe floor 1e-10

RiskFreeVals == {0, 1}
TargetReturnVals == {None} \cup {Some(v) : v \in 0 .. MaxVal + 1}
TargetRiskVals == {None} \cup {Some(v) : v \in 0 .. MaxVal}

(***************************************************************************)
(* Weight units.                                                           *)
(***************************************************************************)
CapTight == 3                 \* 0.25
One == 4 * CapTight           \* 1.0

(***************************************************************************)
(* find_optimal_portfolio                                                  *)
(***************************************************************************)
SharpeEps == 1                \* 1e-10 in multiples of 1e-10

\* sharpes[i] = (rets[i] - risk_free_rate) / np.maximum(risks[i], 1e-10)
SharpeOf(ret, risk, rf) == <<ret - rf, Max(risk * RiskStep, SharpeEps)>>

\* a < b for ratios with positive denominators
RatioLess(a, b) == a[1] * b[2] < b[1] * a[2]

\* Extended reals for np.where(valid, x, +-np.inf): <<0, v>> is v,
\* <<1, 0>> is +inf, <<-1, 0>> is -inf.
Fin(v) == <<0, v>>
PosInf == <<1, 0>>
NegInf == <<-1, 0>>
ExtLess(a, b) == \/ a[1] < b[1]
                 \/ a[1] = 0 /\ b[1] = 0 /\ a[2] < b[2]

\* np.argmin / np.argmax: the first position of the extreme value (1-based)
ArgMinExt(xs) ==
    CHOOSE i \in 1 .. Len(xs) :
        /\ \A j \in 1 .. Len(xs) : ~ExtLess(xs[j], xs[i])
        /\ \A j \in 1 .. i - 1 : ExtLess(xs[i], xs[j])

ArgMaxExt(xs) ==
    CHOOSE i \in 1 .. Len(xs) :
        /\ \A j \in 1 .. Len(xs) : ~ExtLess(xs[i], xs[j])
        /\ \A j \in 1 .. i - 1 : ExtLess(xs[j], xs[i])

ArgMaxRatio(xs) ==
    CHOOSE i \in 1 .. Len(xs) :
        /\ \A j \in 1 .. Len(xs) : ~RatioLess(xs[i], xs[j])
        /\ \A j \in 1 .. i - 1 : RatioLess(xs[j], xs[i])

ArgMinRatio(xs) ==
    CHOOSE i \in 1 .. Len(xs) :
        /\ \A j \in 1 .. Len(xs) : ~RatioLess(xs[j], xs[i])
        /\ \A j \in 1 .. i - 1 : RatioLess(xs[i], xs[j])

FinSeq(xs) == [i \in 1 .. Len(xs) |-> Fin(xs[i])]

\* Python truthiness of an Optional[float]: None and 0.0 are falsy
Truthy(x) == x # None /\ Val(x) # 0

\* the selection_method f-string
SelectionMethod(tr, tk) ==
    IF Truthy(tr) THEN [rule |-> "target_return", value |-> tr]
    ELSE IF Truthy(tk) THEN [rule |-> "target_risk", value |-> tk]
    ELSE [rule |-> "max_sharpe", value |-> None]

\* idx when target_return is not None
TargetReturnIdxMut(rk, rt, tr) ==
    LET valid == [i \in 1 .. Len(rt) |-> rt[i] >= tr]
    IN  IF \A i \in 1 .. Len(rt) : ~valid[i]
        THEN ArgMaxExt(FinSeq(rt))
        ELSE ArgMinExt(FinSeq(rk))

TargetReturnIdx(rk, rt, tr) ==
    LET valid == [i \in 1 .. Len(rt) |-> rt[i] >= tr]
    IN  IF \A i \in 1 .. Len(rt) : ~valid[i]
        THEN ArgMaxExt(FinSeq(rt))
        ELSE ArgMinExt([i \in 1 .. Len(rk) |->
                            IF valid[i] THEN Fin(rk[i]) ELSE PosInf])

\* idx when target_return is None and target_risk is not None
TargetRiskIdxMut(rk, rt, tk) ==
    LET valid == [i \in 1 .. Len(rk) |-> rk[i] < tk]
    IN  IF \A i \in 1 .. Len(rk) : ~valid[i]
        THEN ArgMinExt(FinSeq(rk))
        ELSE ArgMaxExt([i \in 1 .. Len(rt) |->
                            IF valid[i] THEN Fin(rt[i]) ELSE NegInf])

TargetRiskIdx(rk, rt, tk) ==
    LET valid == [i \in 1 .. Len(rk) |-> rk[i] <= tk]
    IN  IF \A i \in 1 .. Len(rk) : ~valid[i]
        THEN ArgMinExt(FinSeq(rk))
        ELSE ArgMaxExt([i \in 1 .. Len(rt) |->
                            IF valid[i] THEN Fin(rt[i]) ELSE NegInf])

\* idx when neither target is given
MaxSharpeIdxMut(sharpes) == ArgMinRatio(sharpes)

MaxSharpeIdx(sharpes) == ArgMaxRatio(sharpes)

\* the returned dict; "index" is 0-based as in Python
find_optimal_portfolio(rk, rt, wts, tr, tk, rf) ==
    IF Len(rk) = 0 THEN [error |-> "Empty frontier"]
    ELSE
        LET sharpes == [i \in 1 .. Len(rk) |-> SharpeOf(rt[i], rk[i], rf)]
            idx == IF tr # None THEN TargetReturnIdx(rk, rt, Val(tr))
                   ELSE IF tk # None THEN TargetRiskIdx(rk, rt, Val(tk))
                   ELSE MaxSharpeIdx(sharpes)
        IN  [index |-> idx - 1,
             return |-> rt[idx],
             risk |-> rk[idx],
             sharpe_ratio |-> sharpes[idx],
             weights |-> wts[idx],
             selection_method |-> SelectionMethod(tr, tk)]

\* The weight dict of the k-th supplied point: distinct per position, so
\* that the point a returned dict belongs to can be told from its weights.
WeightAt(k) == [a \in {"GLOBAL", "EM"} |->
                   IF a = "GLOBAL" THEN Min(k, 4) * CapTight
                   ELSE One - Min(k, 4) * CapTight]

SeqsOfLen(S, n) == [1 .. n -> S]

OptStart ==
    /\ \E n \in 0 .. MaxPoints :
          /\ frontier_risks \in SeqsOfLen(0 .. MaxVal, n)
          /\ frontier_returns \in SeqsOfLen(0 .. MaxVal, n)
          /\ frontier_weights = [k \in 1 .. n |-> WeightAt(k)]
    /\ risk_free_rate \in RiskFreeVals
    /\ target_return = None
    /\ target_risk = None
    /\ opt_result = [pending |-> TRUE]
    /\ opt_pc = "idle"

\* one call find_optimal_portfolio(frontier..., target_return, target_risk, rf)
FindOptimalPortfolio ==
    /\ opt_pc = "idle"
    /\ \E tr \in TargetReturnVals, tk \in TargetRiskVals :
          /\ target_return' = tr
          /\ target_risk' = tk
          /\ opt_result' = find_optimal_portfolio(frontier_risks, frontier_returns,
                                                  frontier_weights, tr, tk,
                                                  risk_free_rate)
    /\ opt_pc' = "done"
    /\ UNCHANGED <<frontier_risks, frontier_returns, frontier_weights, risk_free_rate>>
    /\ UNCHANGED <<ef_vars, rk_vars, nm_vars>>

OptIdle ==
    /\ frontier_risks = << >> /\ frontier_returns = << >> /\ frontier_weights = << >>
    /\ risk_free_rate = 0 /\ target_return = None /\ target_risk = None
    /\ opt_result = [pending |-> TRUE] /\ opt_pc = "off"

OptNext == FindOptimalPortfolio

(***************************************************************************)
(* Asset class definitions                                                 *)
(***************************************************************************)
CORE_ASSETS == {"GLOBAL CASH", "GLOBAL GOVERNMENT", "GLOBAL AGGREGATE",
                "HIGH YIELD", "GOLD", "GLOBAL", "EM"}

PRIVATE_ASSETS == {"GLOBAL CASH", "GLOBAL GOVERNMENT", "PRIVATE DEBT",
                   "PRIVATE INFRASTRUCTURE", "REAL ESTATE", "ABSOLUTE RETURN HS",
                   "GROWTH DIRECTIONAL HF", "PRIVATE EQUITY"}

SPECIAL_ASSETS == {"VENTURE", "CLO", "DEVELOPMENT", "SPECIAL SITS", "GROWTH"}

\* str.upper(), on the names and labels that occur in the model
Upper(s) == CASE s = "em" -> "EM"
              [] s = "global" -> "GLOBAL"
              [] s = "Growth" -> "GROWTH"
              [] s = "Diversified" -> "DIVERSIFIED"
              [] s = "Stability" -> "STABILITY"
              [] OTHER -> s

RECURSIVE SumSeq(_)
SumSeq(xs) == IF Len(xs) = 0 THEN 0 ELSE xs[1] + SumSeq(Tail(xs))

RECURSIVE SumOver(_, _)
SumOver(w, idxs) ==
    IF idxs = {} THEN 0
    ELSE LET i == CHOOSE j \in idxs : TRUE IN w[i] + SumOver(w, idxs \ {i})

(***************************************************************************)
(* Universe selection                                                      *)
(* A row of the assumption table is [name, ret, risk, cap, bucket]; ret,   *)
(* risk, cap and bucket are optional (NaN, or the column is absent); a     *)
(* table without the CAP_MAX column has rows without the cap field.        *)
(***************************************************************************)
\* sub["RISK"].fillna(0)
RiskFilled(r) == IF r.risk = NaN THEN 0 ELSE Val(r.risk)

\* (sub["RISK"].fillna(0) > 0) & sub["RETURN"].notna()
ValidRow(r) == RiskFilled(r) > 0 /\ r.ret # NaN

InMode(m, r) ==
    IF m = "core" THEN Upper(r.name) \in CORE_ASSETS
    ELSE IF m = "core_private" THEN Upper(r.name) \in CORE_ASSETS \cup PRIVATE_ASSETS
    ELSE TRUE

build_universe_mut(m, cma) ==
    LET Member(r) == InMode(m, r)
    IN  SelectSeq(cma, Member)

build_universe(m, cma) ==
    LET Member(r) == InMode(m, r)
    IN  SelectSeq(SelectSeq(cma, Member), ValidRow)

\* the custom branch of compute_efficient_frontier
CustomUniverseMut(custom, cma) ==
    LET wanted == {custom[i] : i \in 1 .. Len(custom)}
        Named(r) == Upper(r.name) \in wanted
    IN  SelectSeq(SelectSeq(cma, Named), ValidRow)

CustomUniverse(custom, cma) ==
    LET wanted == {Upper(custom[i]) : i \in 1 .. Len(custom)}
        Named(r) == Upper(r.name) \in wanted
    IN  SelectSeq(SelectSeq(cma, Named), ValidRow)

\* "if custom_assets and len(custom_assets) >= 2": None and [] are both << >>
SelectUniverseMut(custom, m, cma) ==
    IF Len(custom) > 0 /\ Len(custom) >= 1
    THEN CustomUniverse(custom, cma)
    ELSE build_universe(m, cma)

SelectUniverse(custom, m, cma) ==
    IF Len(custom) > 0 /\ Len(custom) >= 2
    THEN CustomUniverse(custom, cma)
    ELSE build_universe(m, cma)

\* "if len(sub) < 2"
TooFewAssetsMut(s) == Len(s) < 1

TooFewAssets(s) == Len(s) < 2

ErrorResult == [risks |-> << >>, returns |-> << >>, weights |-> << >>,
                assets |-> << >>, error |-> "Need at least 2 assets"]

(***************************************************************************)
(* Constraints                                                             *)
(***************************************************************************)
Clip(x, lo, hi) == Min(Max(x, lo), hi)

\* assets.get("CAP_MAX", pd.Series(1.0, ...)).clip(0.0, 1.0): a table without
\* the column has rows without the cap field; a NaN cell stays NaN
CapMax(r) ==
    IF "cap" \notin DOMAIN r THEN Some(One)
    ELSE IF r.cap = NaN THEN NaN
    ELSE Some(Clip(Val(r.cap), 0, One))

\* np.minimum(caps, c): NaN where caps is NaN
NpMinimum(cap, c) == IF cap = NaN THEN NaN ELSE Some(Min(Val(cap), c))

\* caps_from_template: upper bound per asset (the lower bound is 0), a
\* number or NaN
caps_from_template_mut(assets, template) ==
    [i \in 1 .. Len(assets) |->
        IF template = "tight"
        THEN (IF CapMax(assets[i]) = NaN THEN NaN
              ELSE Some(Max(Val(CapMax(assets[i])), CapTight)))
        ELSE IF template = "loose" THEN NpMinimum(CapMax(assets[i]), One)
        ELSE CapMax(assets[i])]

caps_from_template(assets, template) ==
    [i \in 1 .. Len(assets) |->
        IF template = "tight" THEN NpMinimum(CapMax(assets[i]), CapTight)
        ELSE IF template = "loose" THEN NpMinimum(CapMax(assets[i]), One)
        ELSE CapMax(assets[i])]

CapSpecial == CapTight        \* 0.25

special_caps_mut(assets) == [i \in 1 .. Len(assets) |-> One]

special_caps(assets) ==
    [i \in 1 .. Len(assets) |->
        IF Upper(assets[i].name) \in SPECIAL_ASSETS THEN CapSpecial ELSE One]

\* Python's min(a, b) is a unless b < a, and no comparison with NaN holds
PyMinMut(a, b) == a

PyMin(a, b) == IF a = NaN THEN NaN ELSE IF b < Val(a) THEN Some(b) ELSE a

\* bounds = [(0.0, min(g[1], s[1])) ...]: <<lower, upper>> per asset, the
\* upper bound a number or NaN
CombinedBounds(assets, template) ==
    LET g == caps_from_template(assets, template)
        s == special_caps(assets)
    IN  [i \in 1 .. Len(assets) |-> <<0, PyMin(g[i], s[i])>>]

\* bucket_indices: (stability, diversified, growth) index sets
bucket_indices(assets) ==
    LET all == 1 .. Len(assets)
    IN  IF \A i \in all : assets[i].bucket = None
        THEN <<all, {}, {}>>
        ELSE LET div == {i \in all : Upper(assets[i].bucket) = "DIVERSIFIED"}
                 grow == {i \in all : Upper(assets[i].bucket) = "GROWTH"}
             IN  <<all \ (div \cup grow), div, grow>>

\* build_bucket_env: (indices, lo, hi) per non-empty bucket
build_bucket_env(assets) ==
    LET b == bucket_indices(assets)
        Entry(idxs) == IF idxs = {} THEN << >> ELSE << <<idxs, 0, One>> >>
    IN  Entry(b[1]) \o Entry(b[2]) \o Entry(b[3])

(***************************************************************************)
(* Mean and covariance.  The correlation matrix is the identity over       *)
(* CorrNames; a name outside it reindexes to NaN, filled with 0.  Sigma is *)
(* then diagonal and is kept as its diagonal, in multiples of the          *)
(* eigenvalue floor 1e-10.                                                 *)
(***************************************************************************)
CorrNames == {"GLOBAL", "EM", "PRIVATE DEBT"}

PsdEps == 1                   \* epsilon of ensure_psd, in multiples of 1e-10

\* ensure_psd on a diagonal matrix: its eigenvalues are the diagonal entries
ensure_psd(diag) == [i \in 1 .. Len(diag) |-> Max(diag[i], PsdEps)]

asset_names_of(assets) == [i \in 1 .. Len(assets) |-> Upper(assets[i].name)]

mu_of(assets) == [i \in 1 .. Len(assets) |-> Val(assets[i].ret)]

\* the diagonal of ensure_psd(np.outer(sig, sig) * corr)
Sigma_of(assets) ==
    ensure_psd([i \in 1 .. Len(assets) |->
                   LET sig == Val(assets[i].risk)
                       c == IF Upper(assets[i].name) \in CorrNames THEN 1 ELSE 0
                   IN  sig * sig * c])

Dot(a, b) == SumSeq([i \in 1 .. Len(a) |-> a[i] * b[i]])

\* w @ Sigma @ w, times One * One
Quad(w, Sigma) == SumSeq([i \in 1 .. Len(w) |-> w[i] * w[i] * Sigma[i]])

\* floor of the square root
ISqrt(v) == CHOOSE r \in 0 .. v : r * r <= v /\ (r + 1) * (r + 1) > v

\* float(mu @ w), times One
PortReturn(w, assets) == Dot(mu_of(assets), w)

\* float(np.sqrt(max(w @ Sigma @ w, 0.0))), times One
PortRisk(w, assets) == ISqrt(Max(Quad(w, Sigma_of(assets)), 0))

WeightDict(w, assets) ==
    LET names == asset_names_of(assets)
    IN  [a \in {names[i] : i \in 1 .. Len(names)} |->
            w[CHOOSE i \in 1 .. Len(names) : names[i] = a]]

(***************************************************************************)
(* qp_solver.solve_for_lambda.  SLSQP is a library: a call either          *)
(* converges, to a minimiser of the objective over the feasible set (taken *)
(* on the grid of multiples of 0.25), or does not converge, which it may   *)
(* do on any problem and must do when nothing is feasible; result.x is     *)
(* then the last iterate, taken to be the clipped initial guess or the     *)
(* vector of lower bounds.  A result also records the initial guess the    *)
(* solve was started from, x0.  Lambdas are in tenths.                     *)
(***************************************************************************)
Feasible(w, bounds, bucket_env) ==
    /\ SumSeq(w) = One
    /\ \A i \in 1 .. Len(w) : bounds[i][1] <= w[i] /\ w[i] <= Val(bounds[i][2])
    /\ \A b \in 1 .. Len(bucket_env) :
          LET s == SumOver(w, bucket_env[b][1])
          IN  bucket_env[b][2] <= s /\ s <= bucket_env[b][3]

GridPoints(n) == [1 .. n -> {q * CapTight : q \in 0 .. 4}]

\* (lambda * (w @ Sigma @ w) - mu @ w), times 10 * One * One
Objective(lam, w, assets) ==
    lam * Quad(w, Sigma_of(assets)) - 10 * One * Dot(mu_of(assets), w)

\* x0 = np.full(n, 1.0 / n) when None; np.clip(x0, lows, highs)
InitialGuess(guess, bounds) ==
    LET n == Len(bounds)
        g == IF guess = None THEN [i \in 1 .. n |-> One \div n] ELSE Val(guess)
    IN  [i \in 1 .. n |-> Clip(g[i], bounds[i][1], Val(bounds[i][2]))]

\* the outcomes of a solve that does not converge
SolverFailures(lam, guess, assets, template) ==
    LET bounds == CombinedBounds(assets, template)
        start == InitialGuess(guess, bounds)
    IN  {[success |-> FALSE, x |-> w, lam |-> lam, x0 |-> start] :
            w \in {start, [i \in 1 .. Len(assets) |-> bounds[i][1]]}}

\* the outcomes of a solve that converges
SolverSolutions(lam, guess, assets, template) ==
    LET bounds == CombinedBounds(assets, template)
        env == build_bucket_env(assets)
        feas == {w \in GridPoints(Len(assets)) : Feasible(w, bounds, env)}
        best == {w \in feas :
                    \A v \in feas : Objective(lam, w, assets) <= Objective(lam, v, assets)}
        start == InitialGuess(guess, bounds)
    IN  {[success |-> TRUE, x |-> w, lam |-> lam, x0 |-> start] : w \in best}

SolverOutcomes(lam, guess, assets, template) ==
    SolverFailures(lam, guess, assets, template)
    \cup SolverSolutions(lam, guess, assets, template)

\* np.geomspace(0.1, 200.0, n), in tenths, rounded
Geomspace(n) ==
    CASE n = 0 -> << >>
      [] n = 1 -> <<1>>
      [] n = 2 -> <<1, 2000>>
      [] n = 3 -> <<1, 45, 2000>>
      [] n = 4 -> <<1, 13, 159, 2000>>
      [] OTHER -> <<1, 7, 45, 299, 2000>>

(***************************************************************************)
(* compute_efficient_frontier                                              *)
(***************************************************************************)
\* the body of "for lam in lambdas" after the solve: the new
\* <<risks, rets, weights_list, x0>>
KeepPointMut(res, assets, rs, rt, ws, guess) ==
    <<Append(rs, PortRisk(res.x, assets)),
      Append(rt, PortReturn(res.x, assets)),
      Append(ws, WeightDict(res.x, assets)),
      Some(res.x)>>

KeepPointWarmFail(res, assets, rs, rt, ws, guess) ==
    IF res.success
    THEN <<Append(rs, PortRisk(res.x, assets)),
           Append(rt, PortReturn(res.x, assets)),
           Append(ws, WeightDict(res.x, assets)),
           Some(res.x)>>
    ELSE <<rs, rt, ws, Some(res.x)>>

KeepPoint(res, assets, rs, rt, ws, guess) ==
    IF res.success
    THEN <<Append(rs, PortRisk(res.x, assets)),
           Append(rt, PortReturn(res.x, assets)),
           Append(ws, WeightDict(res.x, assets)),
           Some(res.x)>>
    ELSE <<rs, rt, ws, guess>>

\* universe selection, the size check, and the parameters of the sweep
SelectAssets ==
    /\ ef_pc = "start"
    /\ LET s == SelectUniverse(custom_assets, mode, cma_data)
       IN  /\ sub' = s
           /\ IF TooFewAssets(s)
              THEN /\ ef_result' = ErrorResult
                   /\ ef_pc' = "done"
              ELSE /\ ef_result' = ef_result
                   /\ ef_pc' = "sweep"
    /\ UNCHANGED <<ef_args, solved, risks, rets, weights_list, x0>>
    /\ UNCHANGED <<opt_vars, rk_vars, nm_vars>>

\* the rest of an iteration once the solver has returned res
AfterSolve(res) ==
    /\ solved' = Append(solved, res)
    /\ LET new == KeepPoint(res, sub, risks, rets, weights_list, x0)
       IN  /\ risks' = new[1]
           /\ rets' = new[2]
           /\ weights_list' = new[3]
           /\ x0' = new[4]

\* one iteration of the lambda sweep
SolveLambda ==
    /\ ef_pc = "sweep"
    /\ Len(solved) < Len(Geomspace(n_points))
    /\ LET lam == Geomspace(n_points)[Len(solved) + 1]
       IN  \/ \E res \in SolverFailures(lam, x0, sub, caps_template) : AfterSolve(res)
           \/ \E res \in SolverSolutions(lam, x0, sub, caps_template) : AfterSolve(res)
    /\ UNCHANGED <<ef_args, ef_pc, sub, ef_result>>
    /\ UNCHANGED <<opt_vars, rk_vars, nm_vars>>

\* the return after the sweep
ReturnFrontier ==
    /\ ef_pc = "sweep"
    /\ Len(solved) = Len(Geomspace(n_points))
    /\ ef_result' = [risks |-> risks, returns |-> rets, weights |-> weights_list,
                     assets |-> asset_names_of(sub), n_portfolios |-> Len(risks),
                     mode |-> mode, caps_template |-> caps_template]
    /\ ef_pc' = "done"
    /\ UNCHANGED <<ef_args, ef_locals>>
    /\ UNCHANGED <<opt_vars, rk_vars, nm_vars>>

EfNext == SelectAssets \/ SolveLambda \/ ReturnFrontier

EfIdle ==
    /\ cma_data = << >> /\ mode = "unconstrained" /\ caps_template = "std"
    /\ custom_assets = << >> /\ n_points = 0
    /\ ef_pc = "off" /\ sub = << >> /\ solved = << >>
    /\ risks = << >> /\ rets = << >> /\ weights_list = << >> /\ x0 = None
    /\ ef_result = [pending |-> TRUE]

EfLocalsInit ==
    /\ ef_pc = "start" /\ sub = << >> /\ solved = << >>
    /\ risks = << >> /\ rets = << >> /\ weights_list = << >> /\ x0 = None
    /\ ef_result = [pending |-> TRUE]

(***************************************************************************)
(* Risk engine: how each operation aligns and normalises its weights.      *)
(* A weight Series is a function from asset names to integers, in units of *)
(* 1/WeightDen.  A weight vector as used in a computation is               *)
(* [num |-> function, den |-> d]: its entries are num[a] / d, and they are *)
(* NaN when d = 0.                                                         *)
(***************************************************************************)
WeightDen == 2                \* input weights are multiples of 1/2
MinWeight == 1                \* the lowest input weight is -MinWeight / WeightDen
MaxWeight == 2                \* the highest input weight is MaxWeight / WeightDen

RiskNames == {"GLOBAL", "EM", "UNKNOWN_ASSET"}
ReturnColumns == {"GLOBAL", "EM"}       \* returns.columns
BetaSecurities == {"GLOBAL", "EM"}      \* betas.index

WeightSeries == UNION {[S -> (0 - MinWeight) .. MaxWeight] : S \in SUBSET RiskNames}
BenchmarkSeries == UNION {[S -> 0 .. 1] : S \in SUBSET RiskNames}

RECURSIVE SumFn(_)
SumFn(f) ==
    IF DOMAIN f = {} THEN 0
    ELSE LET a == CHOOSE b \in DOMAIN f : TRUE
         IN  f[a] + SumFn([b \in DOMAIN f \ {a} |-> f[b]])

\* series[index]
Restrict(w, index) == [a \in index |-> w[a]]

\* series.reindex(index).fillna(0)
ReindexFill0(w, index) == [a \in index |-> IF a \in DOMAIN w THEN w[a] ELSE 0]

Raw(w) == [num |-> w, den |-> WeightDen]

\* w / w.sum()
Normalize(w) == [num |-> w, den |-> SumFn(w)]

\* w / w.sum() if w.sum() > 0 else w
NormalizeIfPositive(w) == IF SumFn(w) > 0 THEN Normalize(w) ELSE Raw(w)

\* calculate_contributions: the weights after alignment and normalisation
contributions_weights(w) == Normalize(Restrict(w, ReturnColumns \cap DOMAIN w))

\* the per-asset variances of the (diagonal) covariance of the return series
AssetVar(a) == IF a = "GLOBAL" THEN 4 ELSE 9

\* calculate_contributions: pctr per asset as a ratio, NaN when the weights
\* are NaN; with a diagonal covariance w * (cov @ w) is w_a^2 * var_a
calculate_contributions(w) ==
    LET used == contributions_weights(w)
        contrib == [a \in DOMAIN used.num |-> used.num[a] * used.num[a] * AssetVar(a)]
        total == SumFn(contrib)
    IN  [kind |-> "result",
         weights |-> used,
         nan |-> used.den = 0 /\ DOMAIN used.num # {},
         pctr |-> [a \in DOMAIN contrib |->
                      IF total # 0 THEN <<contrib[a], total>> ELSE <<0, 1>>]]

\* compute_tracking_error: portfolio and benchmark as used
tracking_error_weights(pw, bw) ==
    LET all_assets == (DOMAIN pw \cup DOMAIN bw) \cap ReturnColumns
    IN  [port |-> Raw(ReindexFill0(pw, all_assets)),
         bench |-> Raw(ReindexFill0(bw, all_assets))]

\* calculate_pcte: portfolio and benchmark as used
pcte_weights(pw, bw) ==
    LET all_assets == (DOMAIN pw \cup DOMAIN bw) \cap ReturnColumns
    IN  [port |-> NormalizeIfPositive(ReindexFill0(pw, all_assets)),
         bench |-> NormalizeIfPositive(ReindexFill0(bw, all_assets))]

\* compute_factor_risk_decomposition: w = weights[common_securities].values
factor_weights(w) == Raw(Restrict(w, DOMAIN w \cap BetaSecurities))

\* compute_full_risk_decomposition: port_w and bench_w
full_decomposition_weights(pw, bw) ==
    LET common == (DOMAIN pw \cap BetaSecurities) \cap DOMAIN bw
    IN  [port |-> Raw(Restrict(pw, common)),
         bench |-> Raw(ReindexFill0(bw, common))]

\* compute_diversification_metrics: w = w / w.sum()
diversification_weights(w) == Normalize(Restrict(w, DOMAIN w \cap ReturnColumns))

\* calculate_segment_tracking_error: weights / weights.sum() if positive
segment_weights(w) == NormalizeIfPositive(Restrict(w, DOMAIN w \cap ReturnColumns))

\* the contributions endpoint: an HTTPException raised inside the try block
\* is caught by "except Exception" and raised again with status 500
contributions_endpoint_mut(w) ==
    IF SumFn(w) < 0
    THEN [kind |-> "http_error", status |-> 500,
          detail |-> "Weights must sum to a positive value"]
    ELSE IF DOMAIN w \cap ReturnColumns = {}
    THEN [kind |-> "http_error", status |-> 500,
          detail |-> "No matching assets found in returns data"]
    ELSE [kind |-> "result", status |-> 200, data |-> calculate_contributions(w)]

contributions_endpoint(w) ==
    IF SumFn(w) <= 0
    THEN [kind |-> "http_error", status |-> 500,
          detail |-> "Weights must sum to a positive value"]
    ELSE IF DOMAIN w \cap ReturnColumns = {}
    THEN [kind |-> "http_error", status |-> 500,
          detail |-> "No matching assets found in returns data"]
    ELSE [kind |-> "result", status |-> 200, data |-> calculate_contributions(w)]

NoBench == [a \in {} |-> 0]

\* the call returns: what was called, with which benchmark, the weights it
\* used and the value returned
RiskReturn(op, bw, used, res) ==
    /\ rk_pc' = "done"
    /\ rk_op' = op
    /\ rk_bench' = bw
    /\ rk_used' = used
    /\ rk_result' = res
    /\ UNCHANGED rk_weights
    /\ UNCHANGED <<opt_vars, ef_vars, nm_vars>>

CalculateContributions ==
    /\ rk_pc = "idle"
    /\ LET r == calculate_contributions(rk_weights)
       IN  RiskReturn("calculate_contributions", NoBench, r.weights, r)

ComputeTrackingError ==
    /\ rk_pc = "idle"
    /\ \E bw \in BenchmarkSeries :
          RiskReturn("compute_tracking_error", bw,
                     tracking_error_weights(rk_weights, bw).port, [kind |-> "result"])

CalculatePcte ==
    /\ rk_pc = "idle"
    /\ \E bw \in BenchmarkSeries :
          RiskReturn("calculate_pcte", bw,
                     pcte_weights(rk_weights, bw).port, [kind |-> "result"])

ComputeFactorRiskDecomposition ==
    /\ rk_pc = "idle"
    /\ RiskReturn("compute_factor_risk_decomposition", NoBench,
                  factor_weights(rk_weights), [kind |-> "result"])

ComputeFullRiskDecomposition ==
    /\ rk_pc = "idle"
    /\ \E bw \in BenchmarkSeries :
          RiskReturn("compute_full_risk_decomposition", bw,
                     full_decomposition_weights(rk_weights, bw).port, [kind |-> "result"])

ComputeDiversificationMetrics ==
    /\ rk_pc = "idle"
    /\ RiskReturn("compute_diversification_metrics", NoBench,
                  diversification_weights(rk_weights), [kind |-> "result"])

CalculateSegmentTrackingError ==
    /\ rk_pc = "idle"
    /\ RiskReturn("calculate_segment_tracking_error", NoBench,
                  segment_weights(rk_weights), [kind |-> "result"])

ContributionsEndpoint ==
    /\ rk_pc = "idle"
    /\ LET r == contributions_endpoint(rk_weights)
       IN  RiskReturn("contributions_endpoint", NoBench,
                      IF r.kind = "result" THEN r.data.weights ELSE Raw(NoBench), r)

RiskNext ==
    \/ CalculateContributions
    \/ ComputeTrackingError
    \/ CalculatePcte
    \/ ComputeFactorRiskDecomposition
    \/ ComputeFullRiskDecomposition
    \/ ComputeDiversificationMetrics
    \/ CalculateSegmentTrackingError
    \/ ContributionsEndpoint

RiskIdle ==
    /\ rk_pc = "off" /\ rk_op = "none" /\ rk_weights = NoBench /\ rk_bench = NoBench
    /\ rk_used = Raw(NoBench) /\ rk_result = [kind |-> "pending"]

RiskInit ==
    /\ OptIdle /\ EfIdle /\ NmIdle
    /\ rk_pc = "idle" /\ rk_op = "none"
    /\ rk_weights \in WeightSeries
    /\ rk_bench = NoBench
    /\ rk_used = Raw(NoBench) /\ rk_result = [kind |-> "pending"]

SpecRisk == RiskInit /\ [][RiskNext]_vars

(***************************************************************************)
(* compute_lasso_betas.  A return table is [index, cols]: a set of dates   *)
(* and, per column, a function from the dates to an optional value (NaN is *)
(* << >>).  LassoCV is a library: a fit either returns coefficients or     *)
(* raises, which it may do on any input and must do when the number of     *)
(* folds is below 2.  A variance is a ratio <<numerator, denominator>>, or *)
(* NaN.                                                                    *)
(***************************************************************************)
MaxDates == 4                 \* dates are 1 .. MaxDates
MaxMinObs == 4                \* largest min_observations
CoefVals == {0, 1}            \* coefficients a converged fit may return
CvFoldVals == {1, 5}          \* cv_folds

Securities == <<"S1", "S2">>  \* security_returns.columns, in order
Factors == <<"F1">>           \* factor_returns.columns

\* np.var(v): the population variance of a sequence, NaN when it is empty
PopVar(v) ==
    IF Len(v) = 0 THEN NaN
    ELSE Some(<<Len(v) * SumSeq([i \in 1 .. Len(v) |-> v[i] * v[i]]) - SumSeq(v) * SumSeq(v),
                Len(v) * Len(v)>>)

\* the dates of a set in ascending order
RECURSIVE SortedDates(_)
SortedDates(S) ==
    IF S = {} THEN << >>
    ELSE LET d == CHOOSE x \in S : \A y \in S : x <= y
         IN  <<d>> \o SortedDates(S \ {d})

\* security_returns.index.intersection(factor_returns.index)
common_dates(security_returns, factor_returns) ==
    security_returns.index \cap factor_returns.index

\* "if len(common_dates) < min_observations: raise ValueError"
InsufficientDataMut(dates, min_observations) == Cardinality(dates) <= min_observations

InsufficientData(dates, min_observations) == Cardinality(dates) < min_observations

\* ~(np.isnan(y) | np.any(np.isnan(X), axis=1)), as the valid dates in order
valid_mask(y, fac_ret, dates) ==
    LET Valid(d) == y[d] # NaN /\ \A f \in DOMAIN fac_ret.cols : fac_ret.cols[f][d] # NaN
    IN  SelectSeq(SortedDates(dates), Valid)

\* "if valid_mask.sum() < min_observations"
TooFewValid(valid, min_observations) == Len(valid) < min_observations

\* cv = min(cv_folds, len(y_valid) // 2)
CvOf(cv_folds, valid) == Min(cv_folds, Len(valid) \div 2)

\* LassoCV(...).fit: the outcomes of the fit of one security
LassoOutcomes(cv, valid) ==
    {[ok |-> FALSE, coef |-> 0]}
    \cup (IF cv >= 2 /\ Len(valid) >= cv
          THEN {[ok |-> TRUE, coef |-> c] : c \in CoefVals}
          ELSE {})

\* np.var(y_valid - lasso.predict(X_valid)): the intercept drops out
ResidualVar(y, x, valid, coef) ==
    PopVar([i \in 1 .. Len(valid) |-> Val(y[valid[i]]) - coef * Val(x[valid[i]])])

\* np.var(y_valid) if len(y_valid) > 0 else np.nan
RawVar(y, valid) ==
    IF Len(valid) > 0 THEN PopVar([i \in 1 .. Len(valid) |-> Val(y[valid[i]])]) ELSE NaN

\* the body of "for security in sec_ret.columns": the beta row and the
\* residual variance of one security, given the outcome of its fit
SecurityRowMut(y, fac_ret, dates, min_observations, fit) ==
    LET valid == valid_mask(y, fac_ret, dates)
        x == fac_ret.cols[Factors[1]]
    IN  IF TooFewValid(valid, min_observations)
        THEN [beta |-> 0, residual_var |-> NaN, fitted |-> FALSE]
        ELSE IF fit.ok
        THEN [beta |-> fit.coef, residual_var |-> ResidualVar(y, x, valid, fit.coef),
              fitted |-> TRUE]
        ELSE [beta |-> fit.coef, residual_var |-> NaN, fitted |-> FALSE]

SecurityRow(y, fac_ret, dates, min_observations, fit) ==
    LET valid == valid_mask(y, fac_ret, dates)
        x == fac_ret.cols[Factors[1]]
    IN  IF TooFewValid(valid, min_observations)
        THEN [beta |-> 0, residual_var |-> NaN, fitted |-> FALSE]
        ELSE IF fit.ok
        THEN [beta |-> fit.coef, residual_var |-> ResidualVar(y, x, valid, fit.coef),
              fitted |-> TRUE]
        ELSE [beta |-> 0, residual_var |-> RawVar(y, valid), fitted |-> FALSE]


NoFit == [called |-> FALSE, ok |-> FALSE, coef |-> 0]

\* the date alignment and the overlap check
LassoAlignDates ==
    /\ nm_op = "compute_lasso_betas" /\ nm_pc = "start"
    /\ IF InsufficientData(common_dates(nm_args.security_returns, nm_args.factor_returns),
                           nm_args.min_observations)
       THEN /\ nm_result' = [nm_result EXCEPT !.raised = "ValueError"]
            /\ nm_pc' = "done"
       ELSE /\ nm_result' = nm_result
            /\ nm_pc' = "loop"
    /\ UNCHANGED <<nm_op, nm_args>>
    /\ UNCHANGED <<opt_vars, ef_vars, rk_vars>>

\* one iteration of "for security in sec_ret.columns"
LassoFitSecurity ==
    /\ nm_op = "compute_lasso_betas" /\ nm_pc = "loop"
    /\ Len(nm_result.rows) < Len(Securities)
    /\ LET security == Securities[Len(nm_result.rows) + 1]
           dates == common_dates(nm_args.security_returns, nm_args.factor_returns)
           y == nm_args.security_returns.cols[security]
           valid == valid_mask(y, nm_args.factor_returns, dates)
           fits == IF TooFewValid(valid, nm_args.min_observations)
                   THEN {NoFit}
                   ELSE {[called |-> TRUE, ok |-> f.ok, coef |-> f.coef] :
                            f \in LassoOutcomes(CvOf(nm_args.cv_folds, valid), valid)}
       IN  \E fit \in fits :
              nm_result' = [nm_result EXCEPT
                  !.rows = Append(@, SecurityRow(y, nm_args.factor_returns, dates,
                                                 nm_args.min_observations, fit)),
                  !.fits = Append(@, fit)]
    /\ UNCHANGED <<nm_pc, nm_op, nm_args>>
    /\ UNCHANGED <<opt_vars, ef_vars, rk_vars>>

\* "return betas.fillna(0.0), residual_var"
LassoReturn ==
    /\ nm_op = "compute_lasso_betas" /\ nm_pc = "loop"
    /\ Len(nm_result.rows) = Len(Securities)
    /\ nm_result' = [nm_result EXCEPT !.returned = TRUE]
    /\ nm_pc' = "done"
    /\ UNCHANGED <<nm_op, nm_args>>
    /\ UNCHANGED <<opt_vars, ef_vars, rk_vars>>

LassoNext == LassoAlignDates \/ LassoFitSecurity \/ LassoReturn

\* the inputs: the securities' and the factor's date ranges, the missing
\* values of each column, min_observations and cv_folds
SecIndexes == {1 .. MaxDates, 2 .. MaxDates}
FacIndexes == {1 .. MaxDates, 1 .. (MaxDates - 1)}
FactorNaNs == {{}, {2}}

SecurityTables ==
    UNION {{[index |-> I,
             cols |-> [c \in {"S1", "S2"} |->
                         [d \in I |->
                             IF c = "S1"
                             THEN (IF d \in nan1 THEN NaN ELSE Some(d))
                             ELSE (IF d <= late2 THEN NaN ELSE Some(2 * d))]]] :
              nan1 \in SUBSET I, late2 \in 0 .. MaxDates} : I \in SecIndexes}

FactorTables ==
    UNION {{[index |-> I,
             cols |-> [c \in {"F1"} |->
                         [d \in I |-> IF d \in nanf THEN NaN ELSE Some(d % 2)]]] :
              nanf \in FactorNaNs} : I \in FacIndexes}

LassoInit ==
    /\ OptIdle /\ EfIdle /\ RiskIdle
    /\ nm_pc = "start" /\ nm_op = "compute_lasso_betas"
    /\ nm_args \in [security_returns : SecurityTables, factor_returns : FactorTables,
                     min_observations : 0 .. MaxMinObs, cv_folds : CvFoldVals]
    /\ nm_result = [rows |-> << >>, fits |-> << >>, returned |-> FALSE, raised |-> ""]

SpecLasso == LassoInit /\ [][LassoNext]_vars

(***************************************************************************)
(* Covariance estimators.  A return table is a sequence of rows, oldest    *)
(* first; a row maps each column of ReturnColumns to an integer return.    *)
(* A matrix is [num, den]: its entry (a, b) is num[<<a, b>>] / den, and    *)
(* every entry is NaN when den = 0.  A decay is a ratio <<p, q>>.          *)
(***************************************************************************)
MaxObs == 3                   \* rows of a short return table
MaxRet == 1                   \* returns are 0 .. MaxRet
MaxMinPeriods == 4            \* largest min_periods
ExtraObs == 1                 \* a long table has up to MinObsShrink + ExtraObs rows
AlphaDen == 2                 \* shrink_alpha is a multiple of 1 / AlphaDen
MinObsShrink == 12            \* "if n_obs < 12" in ewma_shrinkage_cov
DefaultMinPeriods == 12       \* min_periods: int = 12

Pairs(cols) == cols \X cols

RECURSIVE Pow(_, _)
Pow(b, e) == IF e = 0 THEN 1 ELSE b * Pow(b, e - 1)

\* n * (returns - returns.mean()), row i, column a
Centered(returns, i, a) ==
    Len(returns) * returns[i][a] - SumSeq([j \in 1 .. Len(returns) |-> returns[j][a]])

\* returns.cov(): the sample covariance, NaN with a single row
SimpleCov(returns, cols) ==
    LET n == Len(returns)
    IN  [num |-> [ab \in Pairs(cols) |->
                    SumSeq([i \in 1 .. n |-> Centered(returns, i, ab[1])
                                              * Centered(returns, i, ab[2])])],
         den |-> n * n * (n - 1)]

\* (1 - decay) * decay ** i, reversed, before the division by the sum: the
\* weight of row j (1 is the oldest), times q ** (n - 1) / (1 - decay)
EwmaWeight(n, decay, j) == Pow(decay[1], n - j) * Pow(decay[2], j - 1)

\* weighted_returns.T @ weighted_returns
EwmaCov(returns, cols, decay) ==
    LET n == Len(returns)
    IN  [num |-> [ab \in Pairs(cols) |->
                    SumSeq([i \in 1 .. n |-> EwmaWeight(n, decay, i)
                                              * Centered(returns, i, ab[1])
                                              * Centered(returns, i, ab[2])])],
         den |-> n * n * SumSeq([i \in 1 .. n |-> EwmaWeight(n, decay, i)])]

calculate_ewma_covariance_mut(returns, cols, decay, min_periods) ==
    IF Len(returns) <= min_periods
    THEN SimpleCov(returns, cols)
    ELSE EwmaCov(returns, cols, decay)

calculate_ewma_covariance(returns, cols, decay, min_periods) ==
    IF Len(returns) < min_periods
    THEN SimpleCov(returns, cols)
    ELSE EwmaCov(returns, cols, decay)

\* the shrinkage target, times the number of assets: np.diag(np.diag(ewma_cov))
\* or np.eye(n_assets) * np.mean(np.diag(ewma_cov))
ShrinkTarget(ewma_cov, cols, shrink_target) ==
    [ab \in Pairs(cols) |->
        IF ab[1] # ab[2] THEN 0
        ELSE IF shrink_target = "diagonal" THEN Cardinality(cols) * ewma_cov.num[ab]
        ELSE SumFn([c \in cols |-> ewma_cov.num[<<c, c>>]])]

\* (1 - shrink_alpha) * ewma_cov + shrink_alpha * target
Shrink(ewma_cov, cols, shrink_target, shrink_alpha) ==
    LET target == ShrinkTarget(ewma_cov, cols, shrink_target)
    IN  [num |-> [ab \in Pairs(cols) |->
                    (AlphaDen - shrink_alpha) * Cardinality(cols) * ewma_cov.num[ab]
                    + shrink_alpha * target[ab]],
         den |-> ewma_cov.den * AlphaDen * Cardinality(cols)]

ewma_shrinkage_cov_mut(returns, cols, lambda_, shrink_target, shrink_alpha) ==
    IF Len(returns) < MinObsShrink
    THEN SimpleCov(returns, cols)
    ELSE Shrink(EwmaCov(returns, cols, lambda_), cols, shrink_target, 0)

ewma_shrinkage_cov(returns, cols, lambda_, shrink_target, shrink_alpha) ==
    IF Len(returns) < MinObsShrink
    THEN SimpleCov(returns, cols)
    ELSE Shrink(EwmaCov(returns, cols, lambda_), cols, shrink_target, shrink_alpha)

\* a call returns
NmReturn(res) ==
    /\ nm_pc' = "done"
    /\ nm_result' = res
    /\ UNCHANGED <<nm_op, nm_args>>
    /\ UNCHANGED <<opt_vars, ef_vars, rk_vars>>

CalculateEwmaCovariance ==
    /\ nm_op = "calculate_ewma_covariance" /\ nm_pc = "start"
    /\ NmReturn(calculate_ewma_covariance(nm_args.returns, ReturnColumns,
                                          nm_args.decay, nm_args.min_periods))

EwmaShrinkageCov ==
    /\ nm_op = "ewma_shrinkage_cov" /\ nm_pc = "start"
    /\ NmReturn(ewma_shrinkage_cov(nm_args.returns, ReturnColumns, nm_args.lambda_,
                                   nm_args.shrink_target, nm_args.shrink_alpha))

CovNext == CalculateEwmaCovariance \/ EwmaShrinkageCov

\* the inputs.  A short table has up to MaxObs rows, each any row; a long
\* table has MinObsShrink - 2 to MinObsShrink + ExtraObs rows, in three runs
\* of equal rows.
RetRows == [ReturnColumns -> 0 .. MaxRet]
ShortTables == UNION {[1 .. n -> RetRows] : n \in 1 .. MaxObs}
LongLens == (MinObsShrink - 2) .. (MinObsShrink + ExtraObs)
LongTables ==
    {[i \in 1 .. n |-> IF 3 * i <= n THEN r[1] ELSE IF 3 * i <= 2 * n THEN r[2] ELSE r[3]] :
        n \in LongLens, r \in [1 .. 3 -> RetRows]}
ShortDecays == {<<1, 2>>, <<9, 10>>}
LongDecays == {<<1, 2>>}
ShrinkTargets == {"diagonal", "identity"}

CovInit ==
    /\ OptIdle /\ EfIdle /\ RiskIdle
    /\ nm_pc = "start" /\ nm_result = << >>
    /\ \/ /\ nm_op = "calculate_ewma_covariance"
          /\ nm_args \in [returns : ShortTables, decay : ShortDecays,
                           min_periods : 1 .. MaxMinPeriods]
       \/ /\ nm_op = "ewma_shrinkage_cov"
          /\ nm_args \in [returns : LongTables, lambda_ : LongDecays,
                           shrink_target : ShrinkTargets, shrink_alpha : 0 .. AlphaDen]

SpecCov == CovInit /\ [][CovNext]_vars

(***************************************************************************)
(* PSD repair.  The matrices are the n x n matrices with one value v on    *)
(* the diagonal and one value c off it, whose eigenvalues are v - c (n - 1 *)
(* times) and v + (n - 1) * c, with the projections I - J/n and J/n (J the *)
(* all-ones matrix); v and c are multiples of 1 / CorrDen.  A number that  *)
(* may carry the eigenvalue floor is a pair <<x, y>>: x units plus y times *)
(* epsilon = 1e-10, which is smaller than any positive number of units.    *)
(* np.linalg.eigh is a library: on a matrix with a NaN entry it raises     *)
(* LinAlgError or returns NaN, depending on the build.                     *)
(***************************************************************************)
MaxDim == 3                   \* matrices are 2 x 2 .. MaxDim x MaxDim
CorrDen == 2                  \* entries are multiples of 1 / CorrDen

PAdd(p, q) == <<p[1] + q[1], p[2] + q[2]>>
PScale(p, k) == <<p[1] * k, p[2] * k>>
PLeq(p, q) == p[1] < q[1] \/ (p[1] = q[1] /\ p[2] <= q[2])
PZero == <<0, 0>>
Epsilon == <<0, 1>>

\* np.maximum(eigenvalues, epsilon)
ClipEigenvalueMut(l) == <<l, 0>>

ClipEigenvalue(l) == IF PLeq(Epsilon, <<l, 0>>) THEN <<l, 0>> ELSE Epsilon

\* np.linalg.eigh(matrix): the eigenvalues (projection on I - J/n, on J/n)
Eigenvalues(m) == <<m.diag - m.off, m.diag + (m.dim - 1) * m.off>>

EighOutcomes(m) == IF m.finite THEN {"ok"} ELSE {"LinAlgError", "nan"}

Dims(n) == (1 .. n) \X (1 .. n)

\* eigenvectors @ np.diag(eigenvalues) @ eigenvectors.T, times n
Reconstruct(n, l1, l2) ==
    [ij \in Dims(n) |-> PAdd(l2, PScale(l1, (IF ij[1] = ij[2] THEN n ELSE 0) - 1))]

\* ensure_psd of risk_engine.py (and of optimization_engine.py) on a full
\* matrix: entries in units of 1 / (n * CorrDen)
ensure_psd_matrix(m, outcome) ==
    IF outcome = "LinAlgError" THEN [raised |-> "LinAlgError"]
    ELSE IF outcome = "nan" THEN [raised |-> "", nan |-> TRUE, dim |-> m.dim]
    ELSE LET l == Eigenvalues(m)
         IN  [raised |-> "", nan |-> FALSE, dim |-> m.dim,
              entries |-> Reconstruct(m.dim, ClipEigenvalue(l[1]), ClipEigenvalue(l[2]))]

\* load_correlation_matrix: symmetrise, set the diagonal to 1, clip to [-1, 1]
CleanCorrelation(m) ==
    [m EXCEPT !.diag = CorrDen, !.off = Clip(m.off, 0 - CorrDen, CorrDen)]

\* load_correlation_matrix: the repair of the cleaned matrix; an entry is a
\* ratio <<numerator, denominator>>.  A LinAlgError is caught and the
\* cleaned matrix is used as it is.
repair_correlation(m, outcome) ==
    LET c == CleanCorrelation(m)
    IN  IF outcome = "LinAlgError"
        THEN [raised |-> "", nan |-> TRUE, dim |-> c.dim, repaired |-> FALSE]
        ELSE IF outcome = "nan"
        THEN [raised |-> "", nan |-> TRUE, dim |-> c.dim, repaired |-> TRUE]
        ELSE LET l == Eigenvalues(c)
                 fixed == Reconstruct(c.dim, <<Max(l[1], 0), 0>>, <<Max(l[2], 0), 0>>)
             IN  [raised |-> "", nan |-> FALSE, dim |-> c.dim, repaired |-> TRUE,
                  entries |-> [ij \in Dims(c.dim) |->
                                  IF ij[1] = ij[2] THEN <<1, 1>>
                                  ELSE <<fixed[ij][1], fixed[<<ij[1], ij[1]>>][1]>>]]

EnsurePsd ==
    /\ nm_op = "ensure_psd" /\ nm_pc = "start"
    /\ \E outcome \in EighOutcomes(nm_args.matrix) :
          NmReturn(ensure_psd_matrix(nm_args.matrix, outcome))

LoadCorrelationMatrix ==
    /\ nm_op = "load_correlation_matrix" /\ nm_pc = "start"
    /\ \E outcome \in EighOutcomes(nm_args.matrix) :
          NmReturn(repair_correlation(nm_args.matrix, outcome))

PsdNext == EnsurePsd \/ LoadCorrelationMatrix

\* the inputs: diagonal 0, 1 or 2, off-diagonal from -1.5 to 1.5, or NaN
Matrices ==
    [dim : 2 .. MaxDim, diag : {0, CorrDen, 2 * CorrDen},
     off : (0 - CorrDen - 1) .. (CorrDen + 1), finite : BOOLEAN]

PsdInit ==
    /\ OptIdle /\ EfIdle /\ RiskIdle
    /\ nm_pc = "start" /\ nm_result = << >>
    /\ nm_op \in {"ensure_psd", "load_correlation_matrix"}
    /\ nm_args \in [matrix : Matrices]

SpecPsd == PsdInit /\ [][PsdNext]_vars

(***************************************************************************)
(* Risk attribution on a full covariance matrix: compute_tracking_error,   *)
(* calculate_pcte, calculate_contributions and                             *)
(* compute_diversification_metrics on one or two assets.  A number that    *)
(* carries the eigenvalue floor is a pair <<x, y>> = x + y * epsilon.      *)
(* Positive factors common to the values of one call (1 / den of the       *)
(* covariance, 1 / the square of the weight sum, 1 / volatility) are       *)
(* dropped: a value is known by its sign and by its ratio to the other     *)
(* values of the same call.                                                *)
(***************************************************************************)
RECURSIVE Gcd(_, _)
Gcd(a, b) == IF b = 0 THEN a ELSE Gcd(b, a % b)

Abs(x) == IF x < 0 THEN 0 - x ELSE x

\* the ratio n / d in lowest terms, d > 0
Reduced(n, d) ==
    LET g == Gcd(Abs(n), Abs(d))
        sgn == IF d < 0 THEN 0 - 1 ELSE 1
    IN  <<sgn * (n \div g), sgn * (d \div g)>>

Sgn(x) == IF x > 0 THEN 1 ELSE IF x < 0 THEN 0 - 1 ELSE 0

PLess(p, q) == PLeq(p, q) /\ p # q
PAbs(p) == IF PLess(p, PZero) THEN PScale(p, 0 - 1) ELSE p
PSum(f) == <<SumFn([a \in DOMAIN f |-> f[a][1]]), SumFn([a \in DOMAIN f |-> f[a][2]])>>

DefaultDecay == <<47, 50>>    \* decay: float = 0.94

\* calculate_ewma_covariance(ret, decay) if use_ewma else ret.cov()
covariance_of(returns, cols, use_ewma, decay) ==
    IF use_ewma
    THEN calculate_ewma_covariance(returns, cols, decay, DefaultMinPeriods)
    ELSE SimpleCov(returns, cols)

\* no entry of the matrix is NaN
CovFinite(cov, cols) == cols = {} \/ cov.den # 0

\* x * z = y * y for x, z >= 0, without forming the products
DetZero(x, y, z) ==
    IF y = 0 THEN x = 0 \/ z = 0
    ELSE x # 0 /\ z # 0 /\ Reduced(x, Abs(y)) = Reduced(Abs(y), z)

\* what np.maximum(eigenvalues, epsilon) adds to a positive semi-definite
\* matrix of one or two assets, per unit of epsilon and up to a positive
\* factor: the projector on its null space (the identity for the zero
\* matrix, the adjugate for a singular one, nothing for a regular one)
NullProjector(cov, cols) ==
    LET trace == SumFn([c \in cols |-> cov.num[<<c, c>>]])
    IN  [ab \in Pairs(cols) |->
           IF trace = 0 THEN (IF ab[1] = ab[2] THEN 1 ELSE 0)
           ELSE IF Cardinality(cols) = 1 THEN 0
           ELSE LET a == ab[1]
                    b == CHOOSE c \in cols : c # a
                IN  IF ~DetZero(cov.num[<<a, a>>], cov.num[<<a, b>>], cov.num[<<b, b>>])
                    THEN 0
                    ELSE IF ab[1] = ab[2] THEN cov.num[<<b, b>>]
                    ELSE 0 - cov.num[ab]]

\* ensure_psd(cov.values): base + epsilon * lift
ensure_psd_cov(cov, cols, outcome) ==
    IF outcome = "LinAlgError" THEN [raised |-> "LinAlgError"]
    ELSE IF outcome = "nan" THEN [raised |-> "", nan |-> TRUE]
    ELSE [raised |-> "", nan |-> FALSE,
          base |-> cov.num, lift |-> NullProjector(cov, cols)]

\* (m @ v)[a] and v @ m @ v
MatVec(m, v, a) == SumFn([b \in DOMAIN v |-> m[<<a, b>>] * v[b]])
QuadForm(m, v) == SumFn([a \in DOMAIN v |-> v[a] * MatVec(m, v, a)])
PQuadForm(psd, v) == <<QuadForm(psd.base, v), QuadForm(psd.lift, v)>>

\* v * (cov @ v), per asset
Contrib(psd, v) ==
    [a \in DOMAIN v |-> <<v[a] * MatVec(psd.base, v, a), v[a] * MatVec(psd.lift, v, a)>>]

Zeros(v) == [a \in DOMAIN v |-> PZero]

\* the weights with the sign of their real value: num * sign(den)
Signed(w) == [a \in DOMAIN w.num |-> IF w.den < 0 THEN 0 - w.num[a] ELSE w.num[a]]

active_weights_mut(port, bench) ==
    [a \in DOMAIN port.num |-> port.num[a] * bench.den]

\* active_w = port_w - bench_w (both denominators are positive)
active_weights(port, bench) ==
    [a \in DOMAIN port.num |-> port.num[a] * bench.den - bench.num[a] * port.den]

\* compute_tracking_error.  tracking_error is Some(te_var), the reported
\* value being sqrt(12 * te_var), or NaN; te_contributions[a] is
\* contrib[a] / divisor, or contrib[a] when there is no divisor.
compute_tracking_error(portfolio_weights, benchmark_weights, returns, use_ewma, outcome) ==
    LET used == tracking_error_weights(portfolio_weights, benchmark_weights)
        all_assets == DOMAIN used.port.num
        active_w == active_weights(used.port, used.bench)
        cov == ensure_psd_cov(covariance_of(returns, all_assets, use_ewma, DefaultDecay),
                              all_assets, outcome)
    IN  IF cov.raised # "" THEN [raised |-> cov.raised]
        ELSE IF cov.nan
        THEN [raised |-> "", tracking_error |-> NaN,
              contrib |-> Zeros(active_w), divisor |-> None]
        ELSE LET te_var == PQuadForm(cov, active_w)
                 te_contrib == Contrib(cov, active_w)
             IN  IF PLess(PZero, te_var)
                 THEN [raised |-> "", tracking_error |-> Some(te_var),
                       contrib |-> te_contrib,
                       divisor |-> IF PSum(te_contrib) # PZero
                                   THEN Some(PSum(te_contrib)) ELSE None]
                 ELSE [raised |-> "",
                       tracking_error |-> IF te_var = PZero THEN Some(PZero) ELSE NaN,
                       contrib |-> Zeros(active_w), divisor |-> None]

\* calculate_pcte.  te_vol is 0 unless te_var > 0, so a NaN variance is
\* reported as 0.
calculate_pcte(portfolio_weights, benchmark_weights, returns, use_ewma, ewma_decay, outcome) ==
    LET used == pcte_weights(portfolio_weights, benchmark_weights)
        all_assets == DOMAIN used.port.num
        active_w == active_weights(used.port, used.bench)
        cov == ensure_psd_cov(covariance_of(returns, all_assets, use_ewma, ewma_decay),
                              all_assets, outcome)
    IN  IF cov.raised # "" THEN [raised |-> cov.raised]
        ELSE IF cov.nan \/ ~PLess(PZero, PQuadForm(cov, active_w))
        THEN [raised |-> "", tracking_error |-> Some(PZero),
              contrib |-> Zeros(active_w), divisor |-> None]
        ELSE LET pcte == Contrib(cov, active_w)
                 total == PSum([a \in DOMAIN pcte |-> PAbs(pcte[a])])
             IN  [raised |-> "", tracking_error |-> Some(PQuadForm(cov, active_w)),
                  contrib |-> pcte,
                  divisor |-> IF PLess(PZero, total) THEN Some(total) ELSE None]

pctr_divisor_mut(pctr) ==
    LET total == PSum([a \in DOMAIN pctr |-> PAbs(pctr[a])])
    IN  IF total # PZero THEN Some(total) ELSE None

\* pctr / pctr.sum() if pctr.sum() != 0 else pctr
pctr_divisor(pctr) == IF PSum(pctr) # PZero THEN Some(PSum(pctr)) ELSE None

\* w @ cov @ w when the weights sum to 0, so that each is +inf, -inf or NaN
\* (0 / 0): +inf when two infinite weights of opposite sign meet a negative
\* covariance, NaN otherwise
InfiniteVar(num, cov, cols) ==
    IF \E a \in cols, b \in cols : num[a] > 0 /\ num[b] < 0 /\ cov.num[<<a, b>>] < 0
    THEN "inf" ELSE "nan"

\* calculate_contributions on the full covariance.  portfolio_var is "pos",
\* "zero", "neg", "inf" or "nan"; pctr[a] is contrib[a] / divisor, or
\* contrib[a] when there is no divisor; pctr_nan says every pctr is NaN.
calculate_contributions_full(returns, weights, use_ewma, ewma_decay, outcome) ==
    LET used == contributions_weights(weights)
        common_assets == DOMAIN used.num
        w == Signed(used)
        cov_matrix == covariance_of(returns, common_assets, use_ewma, ewma_decay)
        cov == ensure_psd_cov(cov_matrix, common_assets, outcome)
    IN  IF cov.raised # "" THEN [raised |-> cov.raised]
        ELSE IF used.den = 0 /\ common_assets # {}
        THEN [raised |-> "",
              portfolio_var |-> IF cov.nan THEN "nan"
                                ELSE InfiniteVar(used.num, cov_matrix, common_assets),
              pctr_nan |-> TRUE, contrib |-> Zeros(w), divisor |-> None]
        ELSE IF cov.nan
        THEN [raised |-> "", portfolio_var |-> "nan",
              pctr_nan |-> FALSE, contrib |-> Zeros(w), divisor |-> None]
        ELSE LET portfolio_var == PQuadForm(cov, w)
                 pctr == IF PLess(PZero, portfolio_var) THEN Contrib(cov, w) ELSE Zeros(w)
             IN  [raised |-> "",
                  portfolio_var |-> IF PLess(PZero, portfolio_var) THEN "pos"
                                    ELSE IF portfolio_var = PZero THEN "zero" ELSE "neg",
                  pctr_nan |-> FALSE, contrib |-> pctr, divisor |-> pctr_divisor(pctr)]

\* the sign of weighted_avg_vol = sum(w * sqrt(diag(cov))) for assets a, b
AvgVolSign(w, cov, a, b) ==
    LET sa == IF cov[<<a, a>>] > 0 THEN Sgn(w[a]) ELSE 0
        sb == IF cov[<<b, b>>] > 0 THEN Sgn(w[b]) ELSE 0
        qa == w[a] * w[a] * cov[<<a, a>>]
        qb == w[b] * w[b] * cov[<<b, b>>]
    IN  IF sa >= 0 /\ sb >= 0 THEN (IF sa = 0 /\ sb = 0 THEN 0 ELSE 1)
        ELSE IF sa <= 0 /\ sb <= 0 THEN 0 - 1
        ELSE IF qa = qb THEN 0
        ELSE IF qa > qb THEN sa ELSE sb

\* the sign of weighted_avg_vol ** 2 - portfolio_var
\*   = 2 * w[a] * w[b] * (sqrt(cov[a, a] * cov[b, b]) - cov[a, b])
ExcessSign(w, cov, a, b) ==
    Sgn(w[a] * w[b])
    * (IF cov[<<a, b>>] < 0 THEN 1
       ELSE Sgn(cov[<<a, a>>] * cov[<<b, b>>] - cov[<<a, b>>] * cov[<<a, b>>]))

ratio_class_mut(avg_vol_sign, excess_sign) ==
    IF avg_vol_sign <= 0 THEN "lt1"
    ELSE IF excess_sign < 0 THEN "gt1"
    ELSE IF excess_sign = 0 THEN "one" ELSE "lt1"

\* weighted_avg_vol / portfolio_vol against 1, for portfolio_vol > 0
ratio_class(avg_vol_sign, excess_sign) ==
    IF avg_vol_sign <= 0 THEN "lt1"
    ELSE IF excess_sign > 0 THEN "gt1"
    ELSE IF excess_sign = 0 THEN "one" ELSE "lt1"

\* compute_diversification_metrics: the diversification ratio as "lt1",
\* "one", "gt1" or "nan".  It is 1.0 unless portfolio_vol > 0, which a NaN
\* volatility is not; with weights that sum to 0 the average volatility is
\* NaN, so the ratio is NaN when the volatility is +inf.
compute_diversification_metrics(weights, returns, use_ewma) ==
    LET used == diversification_weights(weights)
        common == DOMAIN used.num
        w == Signed(used)
        cov == covariance_of(returns, common, use_ewma, DefaultDecay)
    IN  [raised |-> "", n_assets |-> Cardinality(common),
         diversification_ratio |->
            IF common = {} \/ cov.den = 0 THEN "one"
            ELSE IF used.den = 0
            THEN (IF InfiniteVar(used.num, cov, common) = "inf" THEN "nan" ELSE "one")
            ELSE IF QuadForm(cov.num, w) <= 0 THEN "one"
            ELSE IF Cardinality(common) = 1
            THEN ratio_class(Sgn(w[CHOOSE a \in common : TRUE]), 0)
            ELSE LET a == CHOOSE c \in common : TRUE
                     b == CHOOSE c \in common : c # a
                 IN  ratio_class(AvgVolSign(w, cov.num, a, b),
                                 ExcessSign(w, cov.num, a, b))]

ComputeTrackingErrorFull ==
    /\ nm_op = "compute_tracking_error" /\ nm_pc = "start"
    /\ LET all_assets == (DOMAIN nm_args.weights \cup DOMAIN nm_args.benchmark)
                            \cap ReturnColumns
           cov == covariance_of(nm_args.returns, all_assets, nm_args.use_ewma, DefaultDecay)
       IN  \E outcome \in EighOutcomes([finite |-> CovFinite(cov, all_assets)]) :
              NmReturn(compute_tracking_error(nm_args.weights, nm_args.benchmark,
                                              nm_args.returns, nm_args.use_ewma, outcome))

CalculatePcteFull ==
    /\ nm_op = "calculate_pcte" /\ nm_pc = "start"
    /\ LET all_assets == (DOMAIN nm_args.weights \cup DOMAIN nm_args.benchmark)
                            \cap ReturnColumns
           cov == covariance_of(nm_args.returns, all_assets, nm_args.use_ewma,
                                nm_args.ewma_decay)
       IN  \E outcome \in EighOutcomes([finite |-> CovFinite(cov, all_assets)]) :
              NmReturn(calculate_pcte(nm_args.weights, nm_args.benchmark, nm_args.returns,
                                      nm_args.use_ewma, nm_args.ewma_decay, outcome))

CalculateContributionsFull ==
    /\ nm_op = "calculate_contributions" /\ nm_pc = "start"
    /\ LET common_assets == DOMAIN nm_args.weights \cap ReturnColumns
           cov == covariance_of(nm_args.returns, common_assets, nm_args.use_ewma,
                                nm_args.ewma_decay)
       IN  \E outcome \in EighOutcomes([finite |-> CovFinite(cov, common_assets)]) :
              NmReturn(calculate_contributions_full(nm_args.returns, nm_args.weights,
                                                    nm_args.use_ewma, nm_args.ewma_decay,
                                                    outcome))

ComputeDiversificationMetricsFull ==
    /\ nm_op = "compute_diversification_metrics" /\ nm_pc = "start"
    /\ NmReturn(compute_diversification_metrics(nm_args.weights, nm_args.returns,
                                                nm_args.use_ewma))

AttrNext ==
    \/ ComputeTrackingErrorFull
    \/ CalculatePcteFull
    \/ CalculateContributionsFull
    \/ ComputeDiversificationMetricsFull

\* the inputs.  Weights are over GLOBAL alone or over both columns; the
\* benchmark is the portfolio itself or the equal-weight one.  A short
\* table has one or two rows, or starts at zero and ends in a run of equal
\* rows; a long table has exactly min_periods rows of returns 0 or 1 and is
\* met with weights 0 or 1.
AttrWeights == UNION {[S -> (0 - MinWeight) .. MaxWeight] : S \in {{"GLOBAL"}, ReturnColumns}}
UnitWeights == [ReturnColumns -> {0, 1}]
Benchmarks(w) == {w, [a \in DOMAIN w |-> 1]}
AttrShortTables ==
    {t \in ShortTables :
        \/ Len(t) <= 2
        \/ /\ \A c \in ReturnColumns : t[1][c] = 0
           /\ \A i \in 3 .. Len(t) : t[i] = t[3]}
AttrLongTables ==
    {t \in LongTables :
        /\ Len(t) = DefaultMinPeriods
        /\ \A i \in 1 .. Len(t) : \A c \in ReturnColumns : t[i][c] <= 1}
AttrArgs(w, b, t, e, d) ==
    [weights |-> w, benchmark |-> b, returns |-> t, use_ewma |-> e, ewma_decay |-> d]

AttrInit ==
    /\ OptIdle /\ EfIdle /\ RiskIdle
    /\ nm_pc = "start" /\ nm_result = << >>
    /\ \/ \E w \in AttrWeights, t \in AttrShortTables, e \in BOOLEAN :
            \/ /\ nm_op = "compute_tracking_error"
               /\ \E b \in Benchmarks(w) : nm_args = AttrArgs(w, b, t, e, DefaultDecay)
            \/ /\ nm_op = "calculate_pcte"
               /\ \E b \in Benchmarks(w), d \in LongDecays : nm_args = AttrArgs(w, b, t, e, d)
            \/ /\ nm_op = "calculate_contributions"
               /\ \E d \in LongDecays : nm_args = AttrArgs(w, NoBench, t, e, d)
            \/ /\ nm_op = "compute_diversification_metrics"
               /\ nm_args = AttrArgs(w, NoBench, t, e, DefaultDecay)
       \/ \E w \in UnitWeights, t \in AttrLongTables, d \in LongDecays :
            \/ /\ nm_op = "calculate_pcte"
               /\ \E b \in Benchmarks(w) : nm_args = AttrArgs(w, b, t, TRUE, d)
            \/ /\ nm_op = "calculate_contributions"
               /\ nm_args = AttrArgs(w, NoBench, t, TRUE, d)

SpecAttr == AttrInit /\ [][AttrNext]_vars

(***************************************************************************)
(* Inputs.  The assumption table has four rows; GLOBAL and em are core     *)
(* assets, PRIVATE DEBT is private, VENTURE is special.                    *)
(***************************************************************************)
MaxCustom == 2      \* longest custom asset list
MaxNPoints == 2     \* largest n_points

Modes == {"core", "core_private", "unconstrained"}
Templates == {"tight", "loose", "std"}
CustomNames == {"global", "EM", "PRIVATE DEBT", "VENTURE", "ZZZ"}
CustomLists == UNION {SeqsOfLen(CustomNames, n) : n \in 0 .. MaxCustom}

BaseRows == <<
    [name |-> "GLOBAL", ret |-> Some(8), risk |-> Some(4), cap |-> Some(One),
     bucket |-> Some("Growth")],
    [name |-> "em", ret |-> Some(10), risk |-> Some(6), cap |-> Some(One),
     bucket |-> Some("Growth")],
    [name |-> "PRIVATE DEBT", ret |-> Some(6), risk |-> Some(2), cap |-> Some(One),
     bucket |-> Some("Diversified")],
    [name |-> "VENTURE", ret |-> Some(15), risk |-> Some(8), cap |-> Some(One),
     bucket |-> Some("Stability")] >>

\* a row as it is, or with a risk or a return that drops it from any universe
RowVariants(r) ==
    {r, [r EXCEPT !.risk = Some(0)], [r EXCEPT !.risk = NaN], [r EXCEPT !.ret = NaN]}

SelTables ==
    {t \in [1 .. Len(BaseRows) -> UNION {RowVariants(BaseRows[i]) : i \in 1 .. Len(BaseRows)}] :
        \A i \in 1 .. Len(BaseRows) : t[i] \in RowVariants(BaseRows[i])}

\* a row of a table that has no CAP_MAX column
NoCapColumn(r) == [name |-> r.name, ret |-> r.ret, risk |-> r.risk, bucket |-> r.bucket]

\* CAP_MAX per row: above 1 (clipped), 0.5, 0.25; or the column is absent
CapVariants(r) ==
    {[r EXCEPT !.cap = Some(One + CapTight)], [r EXCEPT !.cap = Some(2 * CapTight)],
     [r EXCEPT !.cap = Some(CapTight)]}

SweepTables ==
    {t \in [1 .. Len(BaseRows) -> UNION {CapVariants(BaseRows[i]) : i \in 1 .. Len(BaseRows)}] :
        \A i \in 1 .. Len(BaseRows) : t[i] \in CapVariants(BaseRows[i])}
    \cup {[i \in 1 .. Len(BaseRows) |-> NoCapColumn(BaseRows[i])]}

\* universe selection over every table, custom list and mode
SelInit ==
    /\ OptIdle /\ RiskIdle /\ NmIdle
    /\ cma_data \in SelTables
    /\ mode \in Modes
    /\ caps_template = "std"
    /\ custom_assets \in CustomLists
    /\ n_points = 1
    /\ EfLocalsInit

\* the sweep over every cap column, template, mode and n_points
SweepInit ==
    /\ OptIdle /\ RiskIdle /\ NmIdle
    /\ cma_data \in SweepTables
    /\ mode \in Modes
    /\ caps_template \in Templates
    /\ custom_assets = << >>
    /\ n_points \in 0 .. MaxNPoints
    /\ EfLocalsInit

OptInit == OptStart /\ EfIdle /\ RiskIdle /\ NmIdle

SpecOpt == OptInit /\ [][OptNext]_vars
SpecSel == SelInit /\ [][EfNext]_vars
SpecSweep == SweepInit /\ [][EfNext]_vars

\* a sweep of three lambdas over the table as it is, without its cap column,
\* and with every cap at 0.25 or at 0.5.  The sweep is a for loop over the
\* grid: once started, the call keeps running until it returns.
WarmTables ==
    {[i \in 1 .. Len(BaseRows) |-> BaseRows[i]],
     [i \in 1 .. Len(BaseRows) |-> NoCapColumn(BaseRows[i])]}
    \cup {[i \in 1 .. Len(BaseRows) |-> [BaseRows[i] EXCEPT !.cap = Some(q * CapTight)]] :
             q \in 1 .. 2}

WarmInit ==
    /\ OptIdle /\ RiskIdle /\ NmIdle
    /\ cma_data \in WarmTables
    /\ mode \in Modes
    /\ caps_template \in Templates
    /\ custom_assets = << >>
    /\ n_points = 3
    /\ EfLocalsInit

SpecWarm == WarmInit /\ [][EfNext]_vars /\ WF_vars(EfNext)

(***************************************************************************)
(* The bounds compute_efficient_frontier builds for the solver, on any     *)
(* universe: every row is valid, and its CAP_MAX is negative, 0.25, 0.5,   *)
(* above 1 or NaN, or the table has no CAP_MAX column.                     *)
(***************************************************************************)
BuildBounds ==
    /\ nm_op = "bounds" /\ nm_pc = "start"
    /\ NmReturn([bounds |-> CombinedBounds(nm_args.sub, nm_args.caps_template)])

BoundsNext == BuildBounds

CapCells(r) ==
    {[r EXCEPT !.cap = c] :
        c \in {NaN, Some(0 - CapTight), Some(CapTight), Some(2 * CapTight),
               Some(One + CapTight)}}

BoundsTables ==
    {t \in [1 .. Len(BaseRows) -> UNION {CapCells(BaseRows[i]) : i \in 1 .. Len(BaseRows)}] :
        \A i \in 1 .. Len(BaseRows) : t[i] \in CapCells(BaseRows[i])}
    \cup {[i \in 1 .. Len(BaseRows) |-> NoCapColumn(BaseRows[i])]}

BoundsInit ==
    /\ OptIdle /\ EfIdle /\ RiskIdle
    /\ nm_pc = "start" /\ nm_result = << >>
    /\ nm_op = "bounds"
    /\ nm_args \in [sub : BoundsTables, caps_template : Templates]

SpecBounds == BoundsInit /\ [][BoundsNext]_vars

(***************************************************************************)
(* calculate_blended_benchmark.  Returns and risks are in units of 0.01,   *)
(* allocations in units of 1 / AllocDen, correlations in units of 0.1.  A  *)
(* correlation matrix is [labels, entry]: its index and columns, and the   *)
(* entry at (equity, fixed income), which may be NaN.  The blended risk is *)
(* kept as its square, blended_var; sqrt of a negative number is NaN.      *)
(***************************************************************************)
AllocDen == 10                \* allocations are multiples of 1 / AllocDen
DefaultEqRet == 8             \* return_map.get(eq_type, 0.08)
DefaultEqRisk == 16           \* risk_map.get(eq_type, 0.16)
DefaultFiRet == 4             \* return_map.get(fi_type, 0.04)
DefaultFiRisk == 5            \* risk_map.get(fi_type, 0.05)
DefaultCorr == 2              \* corr = 0.2

\* dict(zip(cma_data["ASSET CLASS"], cma_data[field])).get(key, default):
\* the last row of that name wins, and its value may be NaN
MapGetMut(cma, key, field, default) ==
    LET rows == {i \in 1 .. Len(cma) : Upper(cma[i].name) = key /\ cma[i][field] # NaN}
    IN  IF rows = {} THEN Some(default)
        ELSE cma[CHOOSE i \in rows : \A j \in rows : j <= i][field]

MapGet(cma, key, field, default) ==
    LET rows == {i \in 1 .. Len(cma) : Upper(cma[i].name) = key}
    IN  IF rows = {} THEN Some(default)
        ELSE cma[CHOOSE i \in rows : \A j \in rows : j <= i][field]

\* correlation_matrix.loc[eq_type, fi_type], 0.2 on KeyError and on NaN
CorrGetMut(corr, eq_type, fi_type) ==
    IF eq_type \notin corr.labels \/ fi_type \notin corr.labels THEN DefaultCorr
    ELSE IF corr.entry = NaN THEN 0
    ELSE Val(corr.entry)

CorrGet(corr, eq_type, fi_type) ==
    IF eq_type \notin corr.labels \/ fi_type \notin corr.labels THEN DefaultCorr
    ELSE IF corr.entry = NaN THEN DefaultCorr
    ELSE Val(corr.entry)

\* blended_return, times 100 * AllocDen
BlendedReturn(w1, r1, w2, r2) ==
    IF r1 = NaN \/ r2 = NaN THEN NaN ELSE Some(w1 * Val(r1) + w2 * Val(r2))

\* blended_var, times 100 * 100 * AllocDen * AllocDen * 10
BlendedVar(w1, s1, w2, s2, rho) ==
    IF s1 = NaN \/ s2 = NaN THEN NaN
    ELSE Some(10 * w1 * w1 * Val(s1) * Val(s1) + 10 * w2 * w2 * Val(s2) * Val(s2)
              + 2 * w1 * w2 * Val(s1) * Val(s2) * rho)

calculate_blended_benchmark(cma, corr, equity_type, fixed_income_type, equity_allocation, fixed_income_allocation) ==
    LET eq_type == Upper(equity_type)
        fi_type == Upper(fixed_income_type)
        eq_ret == MapGet(cma, eq_type, "ret", DefaultEqRet)
        eq_risk == MapGet(cma, eq_type, "risk", DefaultEqRisk)
        fi_ret == MapGet(cma, fi_type, "ret", DefaultFiRet)
        fi_risk == MapGet(cma, fi_type, "risk", DefaultFiRisk)
        rho == CorrGet(corr, eq_type, fi_type)
        blended_var == BlendedVar(equity_allocation, eq_risk,
                                  fixed_income_allocation, fi_risk, rho)
    IN  [blended_return |-> BlendedReturn(equity_allocation, eq_ret,
                                          fixed_income_allocation, fi_ret),
         blended_var |-> IF blended_var # NaN /\ Val(blended_var) < 0 THEN NaN
                         ELSE blended_var,
         equity |-> [type |-> eq_type, return |-> eq_ret, risk |-> eq_risk,
                     allocation |-> equity_allocation],
         fixed_income |-> [type |-> fi_type, return |-> fi_ret, risk |-> fi_risk,
                           allocation |-> fixed_income_allocation],
         correlation |-> rho]

CalculateBlendedBenchmark ==
    /\ nm_op = "calculate_blended_benchmark" /\ nm_pc = "start"
    /\ NmReturn(calculate_blended_benchmark(
                    nm_args.cma_data, nm_args.correlation_matrix,
                    nm_args.equity_type, nm_args.fixed_income_type,
                    nm_args.equity_allocation, nm_args.fixed_income_allocation))

BlendNext == CalculateBlendedBenchmark

\* the inputs.  The table has a row "global" and a row "GLOBAL AGGREGATE",
\* each with a return of 0.10 or NaN and a risk of 0.20, 0 or NaN, and may
\* end in a second row for GLOBAL; the matrix has both labels, one or none.
BlendRows(name) ==
    {[name |-> name, ret |-> r, risk |-> k] : r \in {NaN, Some(10)},
                                              k \in {NaN, Some(0), Some(20)}}
BlendTables ==
    {<<a, b>> : a \in BlendRows("global"), b \in BlendRows("GLOBAL AGGREGATE")}
    \cup {<<a, b, [name |-> "GLOBAL", ret |-> Some(12), risk |-> Some(30)]>> :
             a \in {[name |-> "global", ret |-> Some(10), risk |-> Some(20)]},
             b \in BlendRows("GLOBAL AGGREGATE")}
BlendMatrices ==
    {[labels |-> l, entry |-> e] :
        l \in {{"GLOBAL", "GLOBAL AGGREGATE"}},
        e \in {NaN, Some(0 - 10), Some(0), Some(5)}}
    \cup {[labels |-> l, entry |-> NaN] : l \in {{"GLOBAL"}, {}}}
Allocations == {<<AllocDen, 0>>, <<0, AllocDen>>, <<AllocDen - 4, 4>>}

BlendInit ==
    /\ OptIdle /\ EfIdle /\ RiskIdle
    /\ nm_pc = "start" /\ nm_result = << >>
    /\ nm_op = "calculate_blended_benchmark"
    /\ \E a \in Allocations :
          nm_args \in [cma_data : BlendTables, correlation_matrix : BlendMatrices,
                       equity_type : {"GLOBAL", "global", "ZZZ"},
                       fixed_income_type : {"GLOBAL AGGREGATE", "ZZZ"},
                       equity_allocation : {a[1]}, fixed_income_allocation : {a[2]}]

SpecBlend == BlendInit /\ [][BlendNext]_vars

(***************************************************************************)
(* detect_inefficiencies.  A holdings table is a sequence of rows          *)
(* [name, cur, prop] with optional cells, together with the set of weight  *)
(* columns it has; a normalised cell is a ratio <<num, den>> or NaN.       *)
(* Benchmark weights and the threshold are in units of 1 / ThrDen.         *)
(***************************************************************************)
ThrDen == 100
DefaultThreshold == 3         \* threshold: float = 0.03

Fill0(c) == IF c = NaN THEN 0 ELSE Val(c)

\* s = holdings[col].fillna(0.0); tot = s.sum();
\* if tot > 0: holdings[col] = s / tot
NormalizeColumnMut(rows, col) ==
    LET tot == SumSeq([i \in 1 .. Len(rows) |-> Fill0(rows[i][col])])
    IN  [i \in 1 .. Len(rows) |->
            IF tot > 0 THEN Some(<<Fill0(rows[i][col]), tot>>)
            ELSE Some(<<Fill0(rows[i][col]), 1>>)]

NormalizeColumn(rows, col) ==
    LET tot == SumSeq([i \in 1 .. Len(rows) |-> Fill0(rows[i][col])])
    IN  [i \in 1 .. Len(rows) |->
            IF tot > 0 THEN Some(<<Fill0(rows[i][col]), tot>>)
            ELSE IF rows[i][col] = NaN THEN NaN
            ELSE Some(<<Val(rows[i][col]), 1>>)]

\* holdings["ASSET CLASS"].str.upper().map(benchmark_allocations).fillna(0.0)
\* with the keys of the map upper-cased
BenchmarkOf(name, benchmark_allocations) ==
    LET keys == {k \in DOMAIN benchmark_allocations : Upper(k) = Upper(name)}
    IN  IF keys = {} THEN 0
        ELSE benchmark_allocations[CHOOSE k \in keys : TRUE]

\* abs(a - b) >= threshold, on a (num, den) ratio a and another ratio b;
\* a comparison with NaN is False
DeviatesMut(a, b, threshold) ==
    /\ a # NaN /\ b # NaN
    /\ Abs(Val(a)[1] * Val(b)[2] - Val(b)[1] * Val(a)[2]) * ThrDen
          > threshold * Val(a)[2] * Val(b)[2]

Deviates(a, b, threshold) ==
    /\ a # NaN /\ b # NaN
    /\ Abs(Val(a)[1] * Val(b)[2] - Val(b)[1] * Val(a)[2]) * ThrDen
          >= threshold * Val(a)[2] * Val(b)[2]

RECURSIVE FlagRows(_, _, _, _, _, _)
FlagRows(rows, curr, prop, benchmark_allocations, threshold, i) ==
    IF i > Len(rows) THEN << >>
    ELSE LET bench == Some(<<BenchmarkOf(rows[i].name, benchmark_allocations), ThrDen>>)
             rest == FlagRows(rows, curr, prop, benchmark_allocations, threshold, i + 1)
         IN  IF \/ Deviates(prop[i], curr[i], threshold)
                \/ Deviates(prop[i], bench, threshold)
             THEN <<[asset |-> rows[i].name, current |-> curr[i],
                     proposed |-> prop[i], benchmark |-> bench]>> \o rest
             ELSE rest

detect_inefficiencies(holdings, current_column, proposed_column, benchmark_allocations, threshold) ==
    IF current_column \notin holdings.columns \/ proposed_column \notin holdings.columns
    THEN << >>
    ELSE FlagRows(holdings.rows,
                  NormalizeColumn(holdings.rows, "cur"),
                  NormalizeColumn(holdings.rows, "prop"),
                  benchmark_allocations, threshold, 1)

DetectInefficiencies ==
    /\ nm_op = "detect_inefficiencies" /\ nm_pc = "start"
    /\ NmReturn(detect_inefficiencies(nm_args.holdings, "cur", "prop",
                                      nm_args.benchmark_allocations,
                                      nm_args.threshold))

FlagNext == DetectInefficiencies

\* the inputs: two assets whose cells are missing, 0, 1 or 3, a benchmark map
\* that knows both, one (in lower case) or none, and a threshold of 0.03, a
\* quarter or a half
HoldingCells == {NaN, Some(0), Some(1), Some(3)}
HoldingRows ==
    {<<[name |-> "GLOBAL", cur |-> c1, prop |-> p1],
       [name |-> "EM", cur |-> c2, prop |-> p2]>> :
        c1 \in HoldingCells, c2 \in HoldingCells,
        p1 \in HoldingCells, p2 \in HoldingCells}
HoldingColumns == {{"cur", "prop"}, {"cur"}, {"prop"}}
BenchmarkMaps ==
    {[k \in {"GLOBAL", "em"} |-> ThrDen \div 2],
     [k \in {"em"} |-> ThrDen \div 4],
     [k \in {} |-> 0]}
Thresholds == {DefaultThreshold, ThrDen \div 4, ThrDen \div 2}

FlagInit ==
    /\ OptIdle /\ EfIdle /\ RiskIdle
    /\ nm_pc = "start" /\ nm_result = << >>
    /\ nm_op = "detect_inefficiencies"
    /\ \E rows \in HoldingRows, cols \in HoldingColumns :
          /\ cols # {"cur", "prop"} => rows \in {r \in HoldingRows :
                                                  \A i \in 1 .. 2 : r[i].cur = Some(1)
                                                                    /\ r[i].prop = Some(1)}
          /\ nm_args \in [holdings : {[rows |-> rows, columns |-> cols]},
                          benchmark_allocations : BenchmarkMaps,
                          threshold : Thresholds]

SpecFlag == FlagInit /\ [][FlagNext]_vars

(***************************************************************************)
(* calculate_var_cvar.  A return series is a sequence of optional          *)
(* integers; a figure is a ratio <<num, den>>, and an annualised figure is *)
(* [base, sqrt_of], the ratio base times the square root of sqrt_of.       *)
(***************************************************************************)
MaxSeries == 12               \* longest return series
MinVarObs == 10               \* if len(returns) < 10
DefaultPeriods == 12          \* periods_per_year: int = 12

\* returns.dropna()
DropNa(returns) ==
    LET kept == SelectSeq(returns, LAMBDA c : c # NaN)
    IN  [i \in 1 .. Len(kept) |-> Val(kept[i])]

TooFewMut(returns) == Len(returns) < MinVarObs - 1

TooFew(returns) == Len(returns) < MinVarObs

\* the k-th smallest value (k from 0) of a non-empty sequence
OrderStatistic(xs, k) ==
    CHOOSE v \in {xs[i] : i \in 1 .. Len(xs)} :
        /\ Cardinality({i \in 1 .. Len(xs) : xs[i] < v}) <= k
        /\ k < Cardinality({i \in 1 .. Len(xs) : xs[i] <= v})

\* np.percentile(xs, q * 100) for q = a[1] / a[2] in [0, 1]: linear
\* interpolation between the two order statistics around q * (n - 1)
Percentile(xs, a) ==
    LET pos == a[1] * (Len(xs) - 1)
        k == pos \div a[2]
        lo == OrderStatistic(xs, k)
        hi == OrderStatistic(xs, Min(k + 1, Len(xs) - 1))
    IN  <<lo * a[2] + (pos % a[2]) * (hi - lo), a[2]>>

\* returns[returns <= var].mean()
TailMean(xs, var) ==
    LET tail == {i \in 1 .. Len(xs) : xs[i] * var[2] <= var[1]}
    IN  <<SumOver(xs, tail), Cardinality(tail)>>

calculate_var_cvar(series, confidence_level, periods_per_year) ==
    LET returns == DropNa(series)
        alpha == <<confidence_level[2] - confidence_level[1], confidence_level[2]>>
        var == Percentile(returns, alpha)
        cvar == TailMean(returns, var)
    IN  IF TooFew(returns)
        THEN [var |-> <<0, 1>>, cvar |-> <<0, 1>>,
              var_annualized |-> [base |-> <<0, 1>>, sqrt_of |-> 1],
              cvar_annualized |-> [base |-> <<0, 1>>, sqrt_of |-> 1]]
        ELSE [var |-> var, cvar |-> cvar,
              var_annualized |-> [base |-> var, sqrt_of |-> periods_per_year],
              cvar_annualized |-> [base |-> cvar, sqrt_of |-> periods_per_year],
              confidence_level |-> confidence_level]

CalculateVarCvar ==
    /\ nm_op = "calculate_var_cvar" /\ nm_pc = "start"
    /\ NmReturn(calculate_var_cvar(nm_args.returns, nm_args.confidence_level,
                                   nm_args.periods_per_year))

VarNext == CalculateVarCvar

\* the inputs: series of 8 to MaxSeries observations, walking through the
\* values -2 .. 2 with one of four strides, with no cell, the first, the
\* first two or every fourth cell missing
VarSeries ==
    {[i \in 1 .. n |-> IF i \in gaps THEN NaN ELSE Some(((i * stride) % 5) - 2)] :
        n \in 8 .. MaxSeries, stride \in 1 .. 4,
        gaps \in {{}, {1}, {1, 2}, {4, 8, 12}}}

VarInit ==
    /\ OptIdle /\ EfIdle /\ RiskIdle
    /\ nm_pc = "start" /\ nm_result = << >>
    /\ nm_op = "calculate_var_cvar"
    /\ nm_args \in [returns : VarSeries,
                    confidence_level : {<<95, 100>>, <<9, 10>>, <<1, 2>>},
                    periods_per_year : {1, DefaultPeriods, 252}]

SpecVar == VarInit /\ [][VarNext]_vars

(***************************************************************************)
(* calculate_segment_tracking_error: the split of the portfolio by tier.   *)
(* tier_mapping is [given, map]: whether the caller passed one, and the    *)
(* mapping from asset names to tier labels.  The result carries the two    *)
(* segments and their rescaled weights; the tracking errors computed from  *)
(* them are standard deviations of return differences and are left out.    *)
(***************************************************************************)
TierLabels == {"Growth", "Stability", "Diversified", "growth", "Alternatives"}

\* tier_mapping.get(a, "Growth"), after "if tier_mapping is None:
\* tier_mapping = {asset: "Growth" for asset in common}"
TierOf(a, tier_mapping) ==
    IF ~tier_mapping.given THEN "Growth"
    ELSE IF a \in DOMAIN tier_mapping.map THEN tier_mapping.map[a]
    ELSE "Growth"

growth_assets(common, tier_mapping) ==
    {a \in common : TierOf(a, tier_mapping) = "Growth"}

stability_assets_mut(common, tier_mapping) ==
    {a \in common : TierOf(a, tier_mapping) = "Stability"}

stability_assets(common, tier_mapping) ==
    {a \in common : TierOf(a, tier_mapping) \in {"Stability", "Diversified"}}

\* weights.reindex(assets).fillna(0), rescaled by its sum if that is positive
SegmentScaled(weights, assets) ==
    LET seg == Restrict(weights.num, assets)
    IN  IF weights.den # 0 /\ SumFn(seg) > 0 THEN Normalize(seg)
        ELSE [num |-> seg, den |-> weights.den]

calculate_segment_tracking_error(portfolio_weights, tier_mapping) ==
    LET common == DOMAIN portfolio_weights \cap ReturnColumns
        weights == segment_weights(portfolio_weights)
        growth == growth_assets(common, tier_mapping)
        stability == stability_assets(common, tier_mapping)
    IN  [weights |-> weights,
         growth_assets |-> growth,
         stability_assets |-> stability,
         growth_w_scaled |-> SegmentScaled(weights, growth),
         stability_w_scaled |-> SegmentScaled(weights, stability),
         growth_assets_count |-> Cardinality(growth),
         stability_assets_count |-> Cardinality(stability)]

CalculateSegments ==
    /\ nm_op = "calculate_segment_tracking_error" /\ nm_pc = "start"
    /\ NmReturn(calculate_segment_tracking_error(nm_args.portfolio_weights,
                                                 nm_args.tier_mapping))

SegNext == CalculateSegments

\* the inputs: every weight series, with no tier mapping or a mapping of
\* some of the assets to a label
TierMappings ==
    {[given |-> FALSE, map |-> NoBench]}
    \cup {[given |-> TRUE, map |-> m] :
             m \in UNION {[S -> TierLabels] : S \in SUBSET ReturnColumns}}

SegInit ==
    /\ OptIdle /\ EfIdle /\ RiskIdle
    /\ nm_pc = "start" /\ nm_result = << >>
    /\ nm_op = "calculate_segment_tracking_error"
    /\ nm_args \in [portfolio_weights : WeightSeries, tier_mapping : TierMappings]

SpecSeg == SegInit /\ [][SegNext]_vars

(***************************************************************************)
(* The risk figures of the two factor decompositions, on a model of one    *)
(* factor: betas is the exposure of each security, factor_cov the variance *)
(* of the factor, residual_var the residual variance of each security.     *)
(* A figure is its variance, a pair <<x, y>> standing for x + y * epsilon, *)
(* in units of 1 / WeightDen^2; the reported risk is sqrt(12 * variance).  *)
(***************************************************************************)
\* systematic, specific and total variance of the weights w
RiskFigures(w, betas, factor_cov, residual_var) ==
    LET B == [a \in DOMAIN w |-> betas[a]]
        F == ClipEigenvalue(factor_cov)
        eps == [a \in DOMAIN w |-> IF a \in DOMAIN residual_var THEN residual_var[a] ELSE 0]
        factor_exp == SumFn([a \in DOMAIN w |-> w[a] * B[a]])
        systematic_var == PScale(F, factor_exp * factor_exp)
        specific_var == <<SumFn([a \in DOMAIN w |-> w[a] * w[a] * eps[a]]), 0>>
    IN  [systematic_risk |-> systematic_var,
         specific_risk |-> specific_var,
         total_risk |-> PAdd(systematic_var, specific_var)]

compute_factor_risk_decomposition(weights, betas, factor_cov, residual_var) ==
    RiskFigures(factor_weights(weights).num, betas, factor_cov, residual_var)

\* common_securities of compute_full_risk_decomposition
common_securities_mut(portfolio_weights, benchmark_weights) ==
    DOMAIN portfolio_weights \cap BetaSecurities

common_securities(portfolio_weights, benchmark_weights) ==
    (DOMAIN portfolio_weights \cap BetaSecurities) \cap DOMAIN benchmark_weights

compute_full_risk_decomposition(portfolio_weights, benchmark_weights, betas, factor_cov, residual_var) ==
    LET common == common_securities(portfolio_weights, benchmark_weights)
        port_w == Restrict(portfolio_weights, common)
        bench_w == ReindexFill0(benchmark_weights, common)
        active_w == [a \in common |-> port_w[a] - bench_w[a]]
    IN  [portfolio |-> RiskFigures(port_w, betas, factor_cov, residual_var),
         benchmark |-> RiskFigures(bench_w, betas, factor_cov, residual_var),
         active |-> RiskFigures(active_w, betas, factor_cov, residual_var)]

\* the two decompositions are run on the same inputs, in either order; the
\* result of each is kept under its name
DecompReturn(name, res) ==
    /\ nm_result' = [k \in DOMAIN nm_result \cup {name} |->
                        IF k = name THEN res ELSE nm_result[k]]
    /\ nm_pc' = IF DOMAIN nm_result \cup {name} = {"factor", "full"}
                THEN "done" ELSE "start"
    /\ UNCHANGED <<nm_op, nm_args>>
    /\ UNCHANGED <<opt_vars, ef_vars, rk_vars>>

FactorDecomposition ==
    /\ nm_op = "risk_decomposition" /\ nm_pc = "start"
    /\ "factor" \notin DOMAIN nm_result
    /\ DecompReturn("factor",
                    compute_factor_risk_decomposition(
                        nm_args.portfolio_weights, nm_args.betas,
                        nm_args.factor_cov, nm_args.residual_var))

FullDecomposition ==
    /\ nm_op = "risk_decomposition" /\ nm_pc = "start"
    /\ "full" \notin DOMAIN nm_result
    /\ DecompReturn("full",
                    compute_full_risk_decomposition(
                        nm_args.portfolio_weights, nm_args.benchmark_weights,
                        nm_args.betas, nm_args.factor_cov, nm_args.residual_var))

DecompNext == FactorDecomposition \/ FullDecomposition

\* the inputs: every portfolio and benchmark, a factor of variance 0 or 2
DecompInit ==
    /\ OptIdle /\ EfIdle /\ RiskIdle
    /\ nm_pc = "start" /\ nm_result = << >>
    /\ nm_op = "risk_decomposition"
    /\ nm_args \in [portfolio_weights : WeightSeries,
                    benchmark_weights : BenchmarkSeries,
                    betas : {[a \in BetaSecurities |-> IF a = "EM" THEN 2 ELSE 1]},
                    factor_cov : {0, 2},
                    residual_var : {[a \in BetaSecurities |-> IF a = "EM" THEN 3 ELSE 1]}]

SpecDecomp == DecompInit /\ [][DecompNext]_vars

(***************************************************************************)
(* Calls that share their inputs.  Two calls, each of                      *)
(* calculate_blended_benchmark or detect_inefficiencies, run statement by  *)
(* statement in any interleaving on tables owned by the caller.  Here      *)
(* nm_args is [shared, initial]: the caller's objects as they are now and  *)
(* as they were passed; nm_op, nm_pc and nm_result give, per call, the     *)
(* operation, the statement reached and the locals [table, benchmark,      *)
(* out].  A local table is a handle [ref, value]: ref "own" for a frame of *)
(* the call's own, ref "caller" for the caller's object itself.  Cells of  *)
(* a holdings frame are ratios <<num, den>>.                               *)
(***************************************************************************)
Calls == {1, 2}

\* DataFrame.copy()
FrameCopyMut(frame) == [ref |-> "caller", value |-> << >>]

FrameCopy(frame) == [ref |-> "own", value |-> frame]

\* the frame behind a handle
Deref(handle, name) ==
    IF handle.ref = "caller" THEN nm_args.shared[name] ELSE handle.value

\* an assignment into the frame behind the handle of call c
Assign(c, name, frame, pc) ==
    LET handle == nm_result[c].table
    IN  /\ IF handle.ref = "caller"
           THEN /\ nm_args' = [nm_args EXCEPT !.shared[name] = frame]
                /\ nm_result' = nm_result
           ELSE /\ nm_args' = nm_args
                /\ nm_result' = [nm_result EXCEPT ![c].table.value = frame]
        /\ nm_pc' = [nm_pc EXCEPT ![c] = pc]
        /\ UNCHANGED nm_op
        /\ UNCHANGED <<opt_vars, ef_vars, rk_vars>>

\* a step that touches the locals of call c only
Local(c, locals, pc) ==
    /\ nm_result' = [nm_result EXCEPT ![c] = locals]
    /\ nm_pc' = [nm_pc EXCEPT ![c] = pc]
    /\ UNCHANGED <<nm_op, nm_args>>
    /\ UNCHANGED <<opt_vars, ef_vars, rk_vars>>

\* cma_data = cma_data.copy()
BlendCopy(c) ==
    /\ nm_op[c] = "calculate_blended_benchmark" /\ nm_pc[c] = "start"
    /\ Local(c, [nm_result[c] EXCEPT !.table = FrameCopy(nm_args.shared.cma_data)],
             "upper")

\* cma_data["ASSET CLASS"] = cma_data["ASSET CLASS"].str.upper()
BlendUpper(c) ==
    /\ nm_op[c] = "calculate_blended_benchmark" /\ nm_pc[c] = "upper"
    /\ LET cma == Deref(nm_result[c].table, "cma_data")
       IN  Assign(c, "cma_data",
                  [i \in 1 .. Len(cma) |-> [cma[i] EXCEPT !.name = Upper(cma[i].name)]],
                  "lookup")

\* the lookups, the formulas and the return
BlendReturn(c) ==
    /\ nm_op[c] = "calculate_blended_benchmark" /\ nm_pc[c] = "lookup"
    /\ Local(c, [nm_result[c] EXCEPT !.out =
                    calculate_blended_benchmark(
                        Deref(nm_result[c].table, "cma_data"),
                        nm_args.shared.correlation_matrix,
                        nm_args.shared.equity_type, nm_args.shared.fixed_income_type,
                        nm_args.shared.equity_allocation,
                        nm_args.shared.fixed_income_allocation)],
             "done")

\* the column check and holdings = holdings.copy()
DetectCopy(c) ==
    /\ nm_op[c] = "detect_inefficiencies" /\ nm_pc[c] = "start"
    /\ IF {"cur", "prop"} \subseteq nm_args.shared.holdings.columns
       THEN Local(c, [nm_result[c] EXCEPT !.table = FrameCopy(nm_args.shared.holdings)],
                  "cur")
       ELSE Local(c, [nm_result[c] EXCEPT !.out = << >>], "done")

\* s = holdings[col].fillna(0.0); tot = s.sum(); if tot > 0: holdings[col] = s / tot
\* on cells that are ratios of one denominator
NormalizeCells(rows, col) ==
    LET s == [i \in 1 .. Len(rows) |->
                 IF rows[i][col] = NaN THEN 0 ELSE Val(rows[i][col])[1]]
        tot == SumSeq(s)
    IN  [i \in 1 .. Len(rows) |->
            IF tot > 0 THEN [rows[i] EXCEPT ![col] = Some(<<s[i], tot>>)] ELSE rows[i]]

\* one round of "for col in [current_column, proposed_column]"
DetectNormalize(c) ==
    /\ nm_op[c] = "detect_inefficiencies" /\ nm_pc[c] \in {"cur", "prop"}
    /\ LET frame == Deref(nm_result[c].table, "holdings")
       IN  Assign(c, "holdings",
                  [frame EXCEPT !.rows = NormalizeCells(frame.rows, nm_pc[c])],
                  IF nm_pc[c] = "cur" THEN "prop" ELSE "map")

\* benchmark_allocations = {k.upper(): v ...}, a new dict
DetectUpperKeys(c) ==
    /\ nm_op[c] = "detect_inefficiencies" /\ nm_pc[c] = "map"
    /\ LET given == nm_args.shared.benchmark_allocations
       IN  Local(c, [nm_result[c] EXCEPT !.benchmark =
                        [k \in {Upper(j) : j \in DOMAIN given} |->
                            given[CHOOSE j \in DOMAIN given : Upper(j) = k]]],
                 "column")

\* holdings["BENCHMARK"] = ...
DetectBenchmarkColumn(c) ==
    /\ nm_op[c] = "detect_inefficiencies" /\ nm_pc[c] = "column"
    /\ LET frame == Deref(nm_result[c].table, "holdings")
       IN  Assign(c, "holdings",
                  [frame EXCEPT !.columns = @ \cup {"BENCHMARK"},
                                !.bench = [i \in 1 .. Len(frame.rows) |->
                                              BenchmarkOf(frame.rows[i].name,
                                                          nm_result[c].benchmark)]],
                  "flags")

\* the loop over the rows, reading the BENCHMARK column, and the return
DetectReturn(c) ==
    /\ nm_op[c] = "detect_inefficiencies" /\ nm_pc[c] = "flags"
    /\ LET frame == Deref(nm_result[c].table, "holdings")
           named(k) == {i \in 1 .. Len(frame.rows) : Upper(frame.rows[i].name) = k}
           column == [k \in {Upper(frame.rows[i].name) : i \in 1 .. Len(frame.rows)} |->
                         frame.bench[CHOOSE i \in named(k) : TRUE]]
       IN  Local(c, [nm_result[c] EXCEPT !.out =
                        FlagRows(frame.rows,
                                 [i \in 1 .. Len(frame.rows) |-> frame.rows[i].cur],
                                 [i \in 1 .. Len(frame.rows) |-> frame.rows[i].prop],
                                 column, nm_args.shared.threshold, 1)],
                 "done")

FrameNext ==
    \E c \in Calls :
        \/ BlendCopy(c) \/ BlendUpper(c) \/ BlendReturn(c)
        \/ DetectCopy(c) \/ DetectNormalize(c) \/ DetectUpperKeys(c)
        \/ DetectBenchmarkColumn(c) \/ DetectReturn(c)

\* the caller's objects: an assumption table with a lower-case name, holdings
\* whose columns do not sum to 1, a benchmark map with a lower-case key
SharedFrames ==
    {[rows |-> <<[name |-> "GLOBAL", cur |-> c1, prop |-> Some(<<1, 1>>)],
                 [name |-> "em", cur |-> Some(<<3, 1>>), prop |-> p2]>>,
      columns |-> cols, bench |-> << >>] :
        c1 \in {NaN, Some(<<1, 1>>)}, p2 \in {Some(<<0, 1>>), Some(<<3, 1>>)},
        cols \in {{"cur", "prop"}, {"cur"}}}

SharedInputs ==
    [cma_data : {t \in BlendTables : Len(t) = 2 /\ t[1].risk # NaN /\ t[2].ret # NaN},
     correlation_matrix : {[labels |-> {"GLOBAL", "GLOBAL AGGREGATE"}, entry |-> Some(5)]},
     equity_type : {"global"}, fixed_income_type : {"GLOBAL AGGREGATE"},
     equity_allocation : {AllocDen - 4}, fixed_income_allocation : {4},
     holdings : SharedFrames,
     benchmark_allocations : {[k \in {"GLOBAL", "em"} |-> ThrDen \div 2]},
     threshold : {DefaultThreshold}]

FrameInit ==
    /\ OptIdle /\ EfIdle /\ RiskIdle
    /\ nm_op \in [Calls -> {"calculate_blended_benchmark", "detect_inefficiencies"}]
    /\ nm_pc = [c \in Calls |-> "start"]
    /\ nm_result = [c \in Calls |->
                       [table |-> [ref |-> "none", value |-> << >>],
                        benchmark |-> << >>, out |-> << >>]]
    /\ \E inputs \in SharedInputs : nm_args = [shared |-> inputs, initial |-> inputs]

SpecFrame == FrameInit /\ [][FrameNext]_vars

(***************************************************************************)
(* Claims about find_optimal_portfolio                                     *)
(***************************************************************************)
OptReturned == opt_pc = "done" /\ Len(frontier_risks) > 0
OptIdx == opt_result.index + 1
PointSharpe(i) == SharpeOf(frontier_returns[i], frontier_risks[i], risk_free_rate)

\* the returned index, return, risk, sharpe_ratio and weights are those of
\* one supplied point
OneSuppliedPoint ==
    /\ OptIdx \in 1 .. Len(frontier_risks)
    /\ opt_result.return = frontier_returns[OptIdx]
    /\ opt_result.risk = frontier_risks[OptIdx]
    /\ opt_result.sharpe_ratio = PointSharpe(OptIdx)
    /\ opt_result.weights = frontier_weights[OptIdx]

\* C1: with neither target_return nor target_risk, on a non-empty frontier,
\* the returned point has the maximal Sharpe ratio
\* (return - risk_free_rate) / max(risk, 1e-10) over all supplied points, and
\* index, return, risk, sharpe_ratio and weights all belong to that point.
C1_MaxSharpe ==
    (OptReturned /\ target_return = None /\ target_risk = None) =>
        /\ OneSuppliedPoint
        /\ \A j \in 1 .. Len(frontier_risks) :
              ~RatioLess(PointSharpe(OptIdx), PointSharpe(j))

\* a max-Sharpe call that returned a point other than the first, strictly
\* better than another supplied point
C1_Witness ==
    /\ OptReturned /\ target_return = None /\ target_risk = None
    /\ OptIdx > 1
    /\ RatioLess(PointSharpe(1), PointSharpe(OptIdx))

\* C2: with target_return set, on a non-empty frontier, the returned point
\* is a minimum-risk point among the points with return >= target_return;
\* when no point reaches the target it is a maximum-return point; this is so
\* whatever target_risk is.
C2_TargetReturn ==
    (OptReturned /\ target_return # None) =>
        LET n == Len(frontier_risks)
            ok == {i \in 1 .. n : frontier_returns[i] >= Val(target_return)}
        IN  /\ OneSuppliedPoint
            /\ ok # {} => /\ OptIdx \in ok
                          /\ \A j \in ok : frontier_risks[j] >= frontier_risks[OptIdx]
            /\ ok = {} => \A j \in 1 .. n :
                              frontier_returns[j] <= frontier_returns[OptIdx]

\* a target-return call, target_risk set as well, where some but not all
\* points reach the target and the returned point is not the overall
\* minimum-risk point
C2_Witness ==
    /\ OptReturned /\ target_return # None /\ target_risk # None
    /\ frontier_returns[OptIdx] >= Val(target_return)
    /\ \E j \in 1 .. Len(frontier_risks) :
          /\ frontier_returns[j] < Val(target_return)
          /\ frontier_risks[j] < frontier_risks[OptIdx]
    /\ Val(target_risk) < frontier_risks[OptIdx]

\* the unreachable-target case of C2 happens
C2_WitnessUnreachable ==
    /\ OptReturned /\ target_return # None
    /\ \A j \in 1 .. Len(frontier_risks) : frontier_returns[j] < Val(target_return)
    /\ OptIdx > 1

\* C3: with target_risk set and target_return absent, on a non-empty
\* frontier, the returned point is a maximum-return point among the points
\* with risk <= target_risk; when no point is within the target it is a
\* minimum-risk point.
C3_TargetRisk ==
    (OptReturned /\ target_return = None /\ target_risk # None) =>
        LET n == Len(frontier_risks)
            ok == {i \in 1 .. n : frontier_risks[i] <= Val(target_risk)}
        IN  /\ OneSuppliedPoint
            /\ ok # {} => /\ OptIdx \in ok
                          /\ \A j \in ok : frontier_returns[j] <= frontier_returns[OptIdx]
            /\ ok = {} => \A j \in 1 .. n :
                              frontier_risks[j] >= frontier_risks[OptIdx]

\* a target-risk call where a point beyond the target has a higher return
\* than the returned one, and a point exactly at the target is returned
C3_Witness ==
    /\ OptReturned /\ target_return = None /\ target_risk # None
    /\ frontier_risks[OptIdx] = Val(target_risk)
    /\ \E j \in 1 .. Len(frontier_risks) :
          /\ frontier_risks[j] > Val(target_risk)
          /\ frontier_returns[j] > frontier_returns[OptIdx]

(***************************************************************************)
(* Claims about compute_efficient_frontier                                 *)
(***************************************************************************)
EfDone == ef_pc = "done"
EfIsError == "error" \in DOMAIN ef_result
TableRows == {cma_data[i] : i \in 1 .. Len(cma_data)}
SeqSet(xs) == {xs[i] : i \in 1 .. Len(xs)}

\* the valid assets of the table that the mode selects, resp. that the
\* custom list names
ModeValidNames == {Upper(r.name) : r \in {q \in TableRows : InMode(mode, q) /\ ValidRow(q)}}
NamedValidNames ==
    {Upper(r.name) : r \in {q \in TableRows :
                              /\ \E i \in 1 .. Len(custom_assets) :
                                    Upper(custom_assets[i]) = Upper(q.name)
                              /\ ValidRow(q)}}
SubNames == {Upper(r.name) : r \in SeqSet(sub)}

\* the structured error result: empty series and a non-empty error field
EmptyWithError ==
    /\ EfIsError /\ ef_result.error # ""
    /\ ef_result.risks = << >> /\ ef_result.returns = << >>
    /\ ef_result.weights = << >> /\ ef_result.assets = << >>

\* C4 as stated: a call with custom_assets naming exactly one asset returns
\* risks = [], returns = [] and a non-empty error field, whatever the mode
\* and the assumption table are.
C4_Original ==
    (EfDone /\ Len(custom_assets) = 1) =>
        /\ EfIsError /\ ef_result.error # ""
        /\ ef_result.risks = << >> /\ ef_result.returns = << >>

\* C4 amended: a call with custom_assets naming exactly one asset selects
\* its universe by mode, and returns risks = [], returns = [] and a
\* non-empty error field exactly when fewer than 2 valid assets of the table
\* are in the mode; otherwise it returns the frontier of the mode's assets.
C4_Amended ==
    (EfDone /\ Len(custom_assets) = 1) =>
        IF Cardinality(ModeValidNames) < 2
        THEN EmptyWithError
        ELSE ~EfIsError /\ SeqSet(ef_result.assets) = ModeValidNames

\* a one-name custom call that returned the error result
C4_Witness ==
    /\ EfDone /\ Len(custom_assets) = 1 /\ EmptyWithError
    /\ Cardinality(ModeValidNames) = 1

\* C5: whenever the selected universe (by mode or by custom list, after
\* dropping the rows with non-positive or missing risk or missing return)
\* has fewer than 2 assets, the call returns empty risks, returns, weights
\* and assets and a non-empty error field, and no solve has run.
C5_TooFewAssets ==
    (ef_pc \in {"sweep", "done"} /\ Len(sub) < 2) =>
        /\ EfDone
        /\ EmptyWithError
        /\ solved = << >>

\* the error result for a one-asset universe taken from a custom list of
\* two names, and for an empty universe selected by mode
C5_Witness ==
    /\ EfDone /\ Len(sub) = 1 /\ Len(custom_assets) = 2 /\ EmptyWithError

C5_WitnessEmpty ==
    /\ EfDone /\ Len(sub) = 0 /\ custom_assets = << >> /\ EmptyWithError

\* C6 as stated: the custom list replaces the mode-selected universe when it
\* names at least 2 valid assets, the frontier's assets then being exactly
\* those; in every other case the universe is the one selected by mode.
C6_Original ==
    ef_pc \in {"sweep", "done"} =>
        IF Cardinality(NamedValidNames) >= 2
        THEN SubNames = NamedValidNames
        ELSE SubNames = ModeValidNames

\* C6 amended: the custom list replaces the mode-selected universe when it
\* has at least 2 entries; the universe is then exactly the valid assets it
\* names, and these are the frontier's assets when there are at least 2 of
\* them (the error result otherwise); with fewer than 2 entries the universe
\* is the one selected by mode.
C6_Amended ==
    ef_pc \in {"sweep", "done"} =>
        LET expected == IF Len(custom_assets) >= 2 THEN NamedValidNames
                        ELSE ModeValidNames
        IN  /\ SubNames = expected
            /\ Len(sub) = Cardinality(expected)
            /\ EfDone => IF Cardinality(expected) >= 2
                         THEN ~EfIsError /\ SeqSet(ef_result.assets) = expected
                         ELSE EmptyWithError

\* a frontier over the two valid assets a custom list names, in a mode that
\* would have selected other assets
C6_Witness ==
    /\ EfDone /\ ~EfIsError
    /\ Len(custom_assets) = 2
    /\ SeqSet(ef_result.assets) = {"GLOBAL", "VENTURE"}
    /\ mode = "core"
    /\ ModeValidNames = {"GLOBAL", "EM"}

\* the upper bound of a row as the claim states it: the smallest of its
\* CAP_MAX clipped to [0, 1] (1 when absent), the template ceiling, and 0.25
\* for a special asset
StatedUpper(r) ==
    LET own == IF "cap" \notin DOMAIN r THEN One
               ELSE IF Val(r.cap) < 0 THEN 0
               ELSE IF Val(r.cap) > One THEN One ELSE Val(r.cap)
        ceiling == IF caps_template = "tight" THEN CapTight ELSE One
        special == IF Upper(r.name) \in SPECIAL_ASSETS THEN CapTight ELSE One
    IN  Min(own, Min(ceiling, special))

BucketOf(r) == IF r.bucket = None THEN "STABILITY" ELSE Upper(Val(r.bucket))

\* C7: every point kept in the frontier has weights that sum to 1 and
\* satisfy 0 <= w_i <= upper_i for every asset and every bucket-sum bound;
\* under the tight template no weight exceeds 0.25.
C7_WeightsFeasible ==
    \A k \in 1 .. Len(weights_list) :
        LET wd == weights_list[k]
            W(r) == wd[Upper(r.name)]
        IN  /\ DOMAIN wd = SubNames
            /\ SumOver([i \in 1 .. Len(sub) |-> W(sub[i])], 1 .. Len(sub)) = One
            /\ \A r \in SeqSet(sub) : 0 <= W(r) /\ W(r) <= StatedUpper(r)
            /\ \A b \in {"STABILITY", "DIVERSIFIED", "GROWTH"} :
                  LET idxs == {i \in 1 .. Len(sub) : BucketOf(sub[i]) = b}
                      s == SumOver([i \in 1 .. Len(sub) |-> W(sub[i])], idxs)
                  IN  0 <= s /\ s <= One
            /\ caps_template = "tight" => \A r \in SeqSet(sub) : W(r) <= CapTight

\* a returned frontier with a point that holds a special asset at its 0.25
\* cap under a template whose ceiling is 1, and one under the tight template
C7_Witness ==
    /\ EfDone /\ ~EfIsError /\ caps_template = "std"
    /\ \E k \in 1 .. Len(ef_result.weights) :
          /\ "VENTURE" \in DOMAIN ef_result.weights[k]
          /\ ef_result.weights[k]["VENTURE"] = CapTight
          /\ \E r \in SeqSet(sub) :
                r.name = "VENTURE" /\ "cap" \in DOMAIN r /\ Val(r.cap) > CapTight

C7_WitnessTight ==
    /\ EfDone /\ ~EfIsError /\ caps_template = "tight" /\ Len(ef_result.weights) >= 1

\* the solver results that converged, in sweep order
IsConverged(res) == res.success
ConvergedSoFar == SelectSeq(solved, IsConverged)

\* C8: after any prefix of the sweep, risks, returns and weights have the
\* same length, the number of lambdas solved so far that converged; their
\* k-th entries come from the k-th converged lambda in sweep order; the
\* lambdas are solved in grid order; and the final length, reported as
\* n_portfolios, is at most the number of lambdas.
C8_SweepLists ==
    LET grid == Geomspace(n_points)
    IN  /\ Len(solved) <= Len(grid)
        /\ \A i \in 1 .. Len(solved) : solved[i].lam = grid[i]
        /\ Len(risks) = Len(ConvergedSoFar)
        /\ Len(rets) = Len(ConvergedSoFar)
        /\ Len(weights_list) = Len(ConvergedSoFar)
        /\ \A k \in 1 .. Len(ConvergedSoFar) :
              /\ risks[k] = PortRisk(ConvergedSoFar[k].x, sub)
              /\ rets[k] = PortReturn(ConvergedSoFar[k].x, sub)
              /\ weights_list[k] = WeightDict(ConvergedSoFar[k].x, sub)
        /\ (EfDone /\ ~EfIsError) =>
              /\ ef_result.n_portfolios = Len(ConvergedSoFar)
              /\ ef_result.n_portfolios <= Len(grid)
              /\ ef_result.risks = risks /\ ef_result.returns = rets
              /\ ef_result.weights = weights_list

\* a returned frontier of one point, from the second lambda, the first
\* lambda not having converged
C8_Witness ==
    /\ EfDone /\ ~EfIsError
    /\ Len(solved) = 2 /\ ~solved[1].success /\ solved[2].success
    /\ ef_result.n_portfolios = 1

(***************************************************************************)
(* Claims about the risk engine                                            *)
(***************************************************************************)
AttributionOps == {"calculate_contributions", "compute_tracking_error", "calculate_pcte",
                   "compute_factor_risk_decomposition", "compute_full_risk_decomposition",
                   "compute_diversification_metrics", "calculate_segment_tracking_error"}

\* the used vector sums to 1: the entries num[a] / den add up to den / den
SumsToOne(u) == u.den # 0 /\ SumFn(u.num) = u.den

\* C9: every risk-attribution operation that takes weights uses in its
\* computation a weight vector that sums to 1 over the assets it retains,
\* for any input weights with positive sum over those assets.
C9_Original ==
    (rk_pc = "done" /\ rk_op \in AttributionOps
        /\ SumFn(Restrict(rk_weights, DOMAIN rk_used.num \cap DOMAIN rk_weights)) > 0)
    => SumsToOne(rk_used)

InputSumNotPositive == SumFn(rk_weights) <= 0
NoOverlap == DOMAIN rk_weights \cap ReturnColumns = {}

\* C10 as stated: weights whose sum is <= 0, and weights with no asset in
\* common with the return series, are never answered with a contributions
\* result, by calculate_contributions or by the endpoint in front of it.
C10_Original ==
    (rk_pc = "done" /\ rk_op \in {"calculate_contributions", "contributions_endpoint"}
        /\ (InputSumNotPositive \/ NoOverlap))
    => rk_result.kind # "result"

\* C10 amended: the contributions endpoint never returns a contributions
\* result for weights whose sum is <= 0 or that have no asset in common with
\* the return series: the request fails with an HTTP error.
C10_Amended ==
    (rk_pc = "done" /\ rk_op = "contributions_endpoint"
        /\ (InputSumNotPositive \/ NoOverlap))
    => rk_result.kind = "http_error" /\ rk_result.status \in {400, 500}

\* the endpoint rejecting weights that sum to exactly 0 over assets that are
\* all in the return series, and rejecting weights without overlap
C10_Witness ==
    /\ rk_pc = "done" /\ rk_op = "contributions_endpoint"
    /\ SumFn(rk_weights) = 0 /\ DOMAIN rk_weights = ReturnColumns
    /\ rk_result.kind = "http_error"

C10_WitnessNoOverlap ==
    /\ rk_pc = "done" /\ rk_op = "contributions_endpoint"
    /\ SumFn(rk_weights) > 0 /\ NoOverlap
    /\ rk_result.kind = "http_error"

(***************************************************************************)
(* Claims about build_universe                                             *)
(***************************************************************************)
\* the universe was selected by mode: build_universe has run on the table
ByMode == ef_pc \in {"sweep", "done"} /\ Len(custom_assets) < 2

\* C20: build_universe returns only rows of the table with risk > 0 and a
\* present return, in every mode; in mode core every returned name
\* (upper-cased) is in the core set, in mode core_private every one is in the
\* union of the core and private sets, and in any other mode every row that
\* passes the risk/return filter is returned.
C20_BuildUniverse ==
    ByMode =>
        /\ \A r \in SeqSet(sub) :
              /\ r \in TableRows
              /\ r.risk # NaN /\ Val(r.risk) > 0
              /\ r.ret # NaN
        /\ mode = "core" =>
              \A r \in SeqSet(sub) : Upper(r.name) \in CORE_ASSETS
        /\ mode = "core_private" =>
              \A r \in SeqSet(sub) : Upper(r.name) \in CORE_ASSETS \cup PRIVATE_ASSETS
        /\ mode \notin {"core", "core_private"} =>
              \A q \in TableRows :
                  (q.risk # NaN /\ Val(q.risk) > 0 /\ q.ret # NaN) => q \in SeqSet(sub)

\* a core_private universe of GLOBAL and PRIVATE DEBT, from a table whose em
\* row has no usable risk or return and whose VENTURE row is valid but
\* outside the mode
C20_Witness ==
    /\ ByMode /\ mode = "core_private"
    /\ SubNames = {"GLOBAL", "PRIVATE DEBT"}
    /\ \E q \in TableRows : q.name = "em" /\ ~ValidRow(q)
    /\ \E q \in TableRows : q.name = "VENTURE" /\ ValidRow(q)

(***************************************************************************)
(* Claims about compute_lasso_betas                                        *)
(***************************************************************************)
LassoCalled == nm_op = "compute_lasso_betas"

\* the number of dates the security series and the factor series share
Overlap ==
    Cardinality(nm_args.security_returns.index \cap nm_args.factor_returns.index)

\* C15: compute_lasso_betas fails with the insufficient-data error, with no
\* betas and no residual variances, whenever the number of common dates is
\* below min_observations, and never fails with it when the overlap is at
\* least min_observations.
C15_InsufficientData ==
    (LassoCalled /\ nm_pc # "start") =>
        /\ Overlap < nm_args.min_observations =>
              /\ nm_pc = "done" /\ nm_result.raised = "ValueError"
              /\ nm_result.rows = << >> /\ ~nm_result.returned
        /\ Overlap >= nm_args.min_observations => nm_result.raised = ""

\* the error raised with an overlap one short of min_observations
C15_Witness ==
    /\ LassoCalled /\ nm_pc = "done" /\ nm_result.raised = "ValueError"
    /\ Overlap >= 1 /\ Overlap = nm_args.min_observations - 1

\* a call that returned with an overlap of exactly min_observations
C15_WitnessReturned ==
    /\ LassoCalled /\ nm_result.returned
    /\ Overlap >= 1 /\ Overlap = nm_args.min_observations

\* the dates on which security k and every factor have a value
ValidDates(k) ==
    {d \in nm_args.security_returns.index \cap nm_args.factor_returns.index :
        /\ nm_args.security_returns.cols[Securities[k]][d] # NaN
        /\ nm_args.factor_returns.cols["F1"][d] # NaN}

\* the population variance of security k's returns, less coef times the
\* factor's, over its valid dates
StatedVar(k, coef) ==
    LET V == ValidDates(k)
        v == [d \in V |-> Val(nm_args.security_returns.cols[Securities[k]][d])
                             - coef * Val(nm_args.factor_returns.cols["F1"][d])]
        n == Cardinality(V)
    IN  IF n = 0 THEN NaN
        ELSE Some(<<n * SumFn([d \in V |-> v[d] * v[d]]) - SumFn(v) * SumFn(v), n * n>>)

\* C16: once the overlap check has passed, every security is processed and
\* gets a beta row and a residual-variance entry; a security with too few
\* valid periods gets a zero beta and a missing residual variance, one
\* whose fit fails a zero beta and the raw variance of its valid returns,
\* one whose fit succeeds the fitted coefficient and the variance of its
\* residuals; each entry depends on the security's own fit alone, and the
\* call returns whatever the fits do.
C16_EverySecurity ==
    (LassoCalled /\ nm_pc \in {"loop", "done"} /\ nm_result.raised = "") =>
        /\ Len(nm_result.rows) = Len(nm_result.fits)
        /\ Len(nm_result.rows) <= Len(Securities)
        /\ nm_pc = "done" => nm_result.returned /\ Len(nm_result.rows) = Len(Securities)
        /\ \A k \in 1 .. Len(nm_result.rows) :
              LET row == nm_result.rows[k]
                  fit == nm_result.fits[k]
              IN  IF Cardinality(ValidDates(k)) < nm_args.min_observations
                  THEN ~fit.called /\ row.beta = 0 /\ row.residual_var = NaN
                  ELSE IF ~fit.ok
                  THEN fit.called /\ row.beta = 0 /\ row.residual_var = StatedVar(k, 0)
                  ELSE fit.called /\ row.beta = fit.coef
                       /\ row.residual_var = StatedVar(k, fit.coef)

\* a returned call in which the first security's fit failed, leaving a
\* positive raw variance, and the second security's fit succeeded with a
\* non-zero beta
C16_Witness ==
    /\ LassoCalled /\ nm_result.returned
    /\ nm_result.fits[1].called /\ ~nm_result.fits[1].ok
    /\ nm_result.rows[1].residual_var # NaN
    /\ Val(nm_result.rows[1].residual_var)[1] > 0
    /\ nm_result.fits[2].ok /\ nm_result.rows[2].beta = 1

\* a returned call in which the first security had too few valid periods
\* and the second was fitted
C16_WitnessTooFew ==
    /\ LassoCalled /\ nm_result.returned
    /\ ~nm_result.fits[1].called /\ Cardinality(ValidDates(1)) >= 1
    /\ nm_result.fits[2].ok

(***************************************************************************)
(* Claims about the covariance estimators                                  *)
(***************************************************************************)
\* entry ab of matrix m is the ratio n / d
EntryIs(m, ab, n, d) == m.den # 0 /\ Reduced(m.num[ab], m.den) = Reduced(n, d)

ColumnSum(returns, a) == SumSeq([i \in 1 .. Len(returns) |-> returns[i][a]])
ProductSum(returns, a, b) ==
    SumSeq([i \in 1 .. Len(returns) |-> returns[i][a] * returns[i][b]])

\* m is the simple sample covariance of the table:
\* (sum(x * y) - sum(x) * sum(y) / n) / (n - 1), NaN with one row
IsSampleCovariance(m, returns) ==
    LET n == Len(returns)
    IN  IF n = 1 THEN m.den = 0
        ELSE \A ab \in Pairs(ReturnColumns) :
                EntryIs(m, ab,
                        n * ProductSum(returns, ab[1], ab[2])
                          - ColumnSum(returns, ab[1]) * ColumnSum(returns, ab[2]),
                        n * (n - 1))

SameMatrix(m1, m2) ==
    /\ m1.den # 0 /\ m2.den # 0
    /\ \A ab \in Pairs(ReturnColumns) :
          Reduced(m1.num[ab], m1.den) = Reduced(m2.num[ab], m2.den)

EwmaDone == nm_op = "calculate_ewma_covariance" /\ nm_pc = "done"

\* C17: calculate_ewma_covariance returns exactly the simple sample
\* covariance of the returns whenever the number of periods is below
\* min_periods, and the decay-weighted estimate otherwise.
C17_EwmaFallback ==
    EwmaDone =>
        IF Len(nm_args.returns) < nm_args.min_periods
        THEN IsSampleCovariance(nm_result, nm_args.returns)
        ELSE SameMatrix(nm_result, EwmaCov(nm_args.returns, ReturnColumns, nm_args.decay))

\* a fallback on a table of at least two rows whose decay-weighted estimate
\* is a different matrix
C17_Witness ==
    /\ EwmaDone
    /\ Len(nm_args.returns) >= 2 /\ Len(nm_args.returns) = nm_args.min_periods - 1
    /\ ~SameMatrix(nm_result, EwmaCov(nm_args.returns, ReturnColumns, nm_args.decay))

\* the decay-weighted estimate on a table of exactly min_periods rows, a
\* different matrix from the sample covariance
C17_WitnessWeighted ==
    /\ EwmaDone
    /\ Len(nm_args.returns) >= 2 /\ Len(nm_args.returns) = nm_args.min_periods
    /\ ~IsSampleCovariance(nm_result, nm_args.returns)

ShrinkDone == nm_op = "ewma_shrinkage_cov" /\ nm_pc = "done"

\* the result is the pure target: no off-diagonal entry with the diagonal
\* target; the average decay-weighted variance times the identity with the
\* identity target
IsPureTarget ==
    LET e == EwmaCov(nm_args.returns, ReturnColumns, nm_args.lambda_)
        k == Cardinality(ReturnColumns)
    IN  /\ nm_result.den # 0
        /\ \A ab \in Pairs(ReturnColumns) : ab[1] # ab[2] => nm_result.num[ab] = 0
        /\ \A a \in ReturnColumns :
              IF nm_args.shrink_target = "diagonal"
              THEN EntryIs(nm_result, <<a, a>>, e.num[<<a, a>>], e.den)
              ELSE EntryIs(nm_result, <<a, a>>,
                           SumFn([c \in ReturnColumns |-> e.num[<<c, c>>]]), k * e.den)

EnsurePsdDone == nm_op = "ensure_psd" /\ nm_pc = "done"
LoaderDone == nm_op = "load_correlation_matrix" /\ nm_pc = "done"

\* the input is a correlation matrix: unit diagonal, entries in [-1, 1]
CorrelationTyped ==
    /\ nm_args.matrix.finite /\ nm_args.matrix.diag = CorrDen
    /\ 0 - CorrDen <= nm_args.matrix.off /\ nm_args.matrix.off <= CorrDen

Symmetric(out) == \A ij \in Dims(out.dim) : out.entries[ij] = out.entries[<<ij[2], ij[1]>>]

\* the eigenvalues of ensure_psd's output, times n (the output has one value
\* on the diagonal and one off it)
OutEigenvalues(out) ==
    LET d == out.entries[<<1, 1>>]
        o == out.entries[<<1, 2>>]
    IN  <<PAdd(d, PScale(o, 0 - 1)), PAdd(d, PScale(o, out.dim - 1))>>

OneValuePerKind(out) ==
    \A ij \in Dims(out.dim) :
        out.entries[ij] = out.entries[IF ij[1] = ij[2] THEN <<1, 1>> ELSE <<1, 2>>]

\* the diagonal of ensure_psd's output is exactly 1
UnitDiagonal(out) ==
    \A i \in 1 .. out.dim : out.entries[<<i, i>>] = <<out.dim * CorrDen, 0>>

C13_WitnessLoader ==
    /\ LoaderDone /\ CorrelationTyped
    /\ nm_args.matrix.dim = 3 /\ nm_args.matrix.off = 0 - CorrDen
    /\ nm_result.entries[<<1, 2>>] = <<0 - 2 * CorrDen, 4 * CorrDen>>

\* C14 as stated: when the eigendecomposition inside the PSD repair fails,
\* the failure is caught and the caller receives the input unchanged: no
\* error propagates out of ensure_psd.
C14_Original ==
    EnsurePsdDone => nm_result.raised = ""

(***************************************************************************)
(* Claims about the risk attribution                                       *)
(***************************************************************************)
AttrDone(op) == nm_op = op /\ nm_pc = "done"
TrackingDone == AttrDone("compute_tracking_error") \/ AttrDone("calculate_pcte")

\* the portfolio and the benchmark are the same vector
SameWeights == nm_args.weights = nm_args.benchmark

NoContribution == \A a \in DOMAIN nm_result.contrib : nm_result.contrib[a] = PZero

ZeroTrackingError ==
    /\ nm_result.raised = ""
    /\ nm_result.tracking_error = Some(PZero)
    /\ NoContribution

\* C11 as stated: with the portfolio equal to the benchmark,
\* compute_tracking_error and calculate_pcte report a tracking error of 0
\* and contributions that are all 0, for every return series and either
\* covariance flag.
C11_Original == (TrackingDone /\ SameWeights) => ZeroTrackingError

\* C11 amended: with the portfolio equal to the benchmark, both operations
\* report a tracking error of 0 and contributions that are all 0 for every
\* return series of at least two rows and either covariance flag.  On a
\* one-row series the covariance is NaN: the call either ends in the
\* LinAlgError of the eigendecomposition, or calculate_pcte reports 0 and
\* compute_tracking_error reports NaN, the contributions being 0 in both.
C11_Amended ==
    (TrackingDone /\ SameWeights) =>
        IF Len(nm_args.returns) >= 2 THEN ZeroTrackingError
        ELSE \/ nm_result.raised = "LinAlgError"
             \/ /\ nm_result.raised = "" /\ NoContribution
                /\ nm_result.tracking_error =
                      IF nm_op = "calculate_pcte" THEN Some(PZero) ELSE NaN

\* compute_tracking_error with the benchmark equal to a two-asset portfolio
\* on a three-row series whose columns both vary, under the EWMA flag
C11_Witness ==
    /\ AttrDone("compute_tracking_error") /\ SameWeights /\ nm_args.use_ewma
    /\ nm_args.weights = [a \in ReturnColumns |-> IF a = "GLOBAL" THEN 2 ELSE 1]
    /\ Len(nm_args.returns) = 3
    /\ \A c \in ReturnColumns : nm_args.returns[2][c] # nm_args.returns[3][c]
    /\ ZeroTrackingError

\* calculate_pcte on a twelve-row series, where the EWMA weights are used
C11_WitnessPcte ==
    /\ AttrDone("calculate_pcte") /\ SameWeights /\ nm_args.use_ewma
    /\ Len(nm_args.returns) = DefaultMinPeriods
    /\ nm_args.returns[1] # nm_args.returns[DefaultMinPeriods]
    /\ SumFn(nm_args.weights) > 0
    /\ ZeroTrackingError

\* a different benchmark gives a positive tracking error
C11_WitnessActive ==
    /\ AttrDone("compute_tracking_error") /\ ~SameWeights
    /\ nm_result.raised = "" /\ nm_result.tracking_error # NaN
    /\ PLess(PZero, Val(nm_result.tracking_error))

ContribDone == AttrDone("calculate_contributions") /\ nm_result.raised = ""

\* the pctr values sum to 1
PctrSumsToOne ==
    /\ ~nm_result.pctr_nan
    /\ nm_result.divisor # None
    /\ PSum(nm_result.contrib) = Val(nm_result.divisor)

\* C12 as stated: for every weight vector for which the portfolio variance
\* is > 0, the pctr values returned by calculate_contributions sum to 1.
C12_Original ==
    (ContribDone /\ nm_result.portfolio_var \in {"pos", "inf"}) => PctrSumsToOne

\* C12 amended: for every weight vector whose weights over the common
\* assets do not sum to 0 and for which the portfolio variance is > 0, the
\* pctr values sum to 1.  When the weights sum to 0 the normalised weights
\* are infinite: the variance is then +inf or NaN and every pctr is NaN.
C12_Amended ==
    ContribDone =>
        LET total == SumFn(Restrict(nm_args.weights, DOMAIN nm_args.weights \cap ReturnColumns))
        IN  /\ (total # 0 /\ nm_result.portfolio_var = "pos") => PctrSumsToOne
            /\ nm_result.portfolio_var = "inf" => total = 0
            /\ total = 0 => /\ nm_result.pctr_nan
                            /\ nm_result.portfolio_var \in {"inf", "nan"}

\* positive variance with a negative contribution: a hedging position
C12_Witness ==
    /\ ContribDone /\ nm_result.portfolio_var = "pos" /\ PctrSumsToOne
    /\ \E a \in DOMAIN nm_result.contrib : PLess(nm_result.contrib[a], PZero)

\* weights 1/2 and -1/2 on negatively correlated assets: variance +inf
C12_WitnessInf ==
    /\ ContribDone /\ nm_result.portfolio_var = "inf" /\ nm_result.pctr_nan

\* the variance is positive only through the eigenvalue floor
C12_WitnessFloor ==
    /\ ContribDone /\ nm_result.portfolio_var = "pos" /\ PctrSumsToOne
    /\ Val(nm_result.divisor)[1] = 0

DivDone == AttrDone("compute_diversification_metrics")
CommonWeights == Restrict(nm_args.weights, DOMAIN nm_args.weights \cap ReturnColumns)

C19_WitnessAbove ==
    /\ DivDone /\ nm_result.n_assets = 2
    /\ \A a \in ReturnColumns : nm_args.weights[a] > 0
    /\ nm_result.diversification_ratio = "gt1"

\* weights that sum to 0 on negatively correlated assets: the ratio is NaN
C19_WitnessNaN == DivDone /\ nm_result.diversification_ratio = "nan"

\* a single asset with a varying return
C19_WitnessSingle ==
    /\ DivDone /\ nm_result.n_assets = 1 /\ nm_args.weights["GLOBAL"] > 0
    /\ Len(nm_args.returns) = 3 /\ nm_args.returns[2]["GLOBAL"] # nm_args.returns[3]["GLOBAL"]
    /\ nm_result.diversification_ratio = "one"

(***************************************************************************)
(* Claims about the solver bounds                                          *)
(***************************************************************************)
BoundsDone == nm_op = "bounds" /\ nm_pc = "done"

\* the upper bound as the claim states it; a row has no cap_max when the
\* table has no CAP_MAX column or the row's cell is empty
C21_StatedUpper(r, template) ==
    LET own == IF "cap" \notin DOMAIN r \/ r.cap = NaN THEN One
               ELSE IF Val(r.cap) < 0 THEN 0
               ELSE IF Val(r.cap) > One THEN One ELSE Val(r.cap)
        ceiling == IF template = "tight" THEN CapTight ELSE One
        special == IF Upper(r.name) \in SPECIAL_ASSETS THEN CapTight ELSE One
    IN  Min(own, Min(ceiling, special))

\* C21 as stated: for every asset the bounds handed to the solver are
\* lower = 0 and upper = min(cap_max clipped to [0, 1] or 1 when absent, the
\* template ceiling, 0.25 for a special asset), so the upper bound of a
\* special asset is a number that never exceeds 0.25.
C21_Original ==
    BoundsDone =>
        \A i \in 1 .. Len(nm_args.sub) :
            LET r == nm_args.sub[i]
                b == nm_result.bounds[i]
            IN  /\ b[1] = 0
                /\ b[2] = Some(C21_StatedUpper(r, nm_args.caps_template))
                /\ Upper(r.name) \in SPECIAL_ASSETS => (b[2] # NaN /\ Val(b[2]) <= CapTight)

\* what does hold: the statement for every row whose CAP_MAX cell is a
\* number or whose table has no CAP_MAX column, and a NaN upper bound for
\* every row whose cell is NaN
C21_NumericCaps ==
    BoundsDone =>
        \A i \in 1 .. Len(nm_args.sub) :
            LET r == nm_args.sub[i]
                b == nm_result.bounds[i]
            IN  /\ b[1] = 0
                /\ IF "cap" \in DOMAIN r /\ r.cap = NaN THEN b[2] = NaN
                   ELSE b[2] = Some(C21_StatedUpper(r, nm_args.caps_template))

\* the special asset with a numeric cap above 0.25 under the std template
C21_WitnessSpecial ==
    /\ BoundsDone /\ nm_args.caps_template = "std"
    /\ \E i \in 1 .. Len(nm_args.sub) :
          /\ nm_args.sub[i].name = "VENTURE"
          /\ "cap" \in DOMAIN nm_args.sub[i] /\ nm_args.sub[i].cap = Some(One + CapTight)
          /\ nm_result.bounds[i] = <<0, Some(CapTight)>>

(***************************************************************************)
(* Claims about the blended benchmark                                      *)
(***************************************************************************)
BlendDone == nm_op = "calculate_blended_benchmark" /\ nm_pc = "done"

\* the table values of the asset named key: the field of a row of that name
\* after which no other row has that name
TableValues(key, field) ==
    {nm_args.cma_data[i][field] :
        i \in {j \in 1 .. Len(nm_args.cma_data) :
                  /\ Upper(nm_args.cma_data[j].name) = key
                  /\ \A k \in j + 1 .. Len(nm_args.cma_data) :
                        Upper(nm_args.cma_data[k].name) # key}}

\* v is the table value of the named asset, or the default for an unknown name
TableOrDefault(v, key, field, default) ==
    IF TableValues(key, field) = {} THEN v = Some(default)
    ELSE v \in TableValues(key, field)

\* rho is the matrix entry, or 0.2 when the entry is absent or missing
EntryOrDefault(rho) ==
    LET m == nm_args.correlation_matrix
    IN  IF /\ Upper(nm_args.equity_type) \in m.labels
           /\ Upper(nm_args.fixed_income_type) \in m.labels
           /\ m.entry # NaN
        THEN rho = Val(m.entry)
        ELSE rho = DefaultCorr

\* the components, the correlation and the two blended figures are as stated
BlendFormulas ==
    LET eq == nm_result.equity
        fi == nm_result.fixed_income
        w1 == nm_args.equity_allocation
        w2 == nm_args.fixed_income_allocation
        rho == nm_result.correlation
        finite == eq.risk # NaN /\ fi.risk # NaN
        var == 10 * w1 * w1 * Val(eq.risk) * Val(eq.risk)
               + 10 * w2 * w2 * Val(fi.risk) * Val(fi.risk)
               + 2 * w1 * w2 * Val(eq.risk) * Val(fi.risk) * rho
    IN  /\ TableOrDefault(eq.return, Upper(nm_args.equity_type), "ret", DefaultEqRet)
        /\ TableOrDefault(eq.risk, Upper(nm_args.equity_type), "risk", DefaultEqRisk)
        /\ TableOrDefault(fi.return, Upper(nm_args.fixed_income_type), "ret", DefaultFiRet)
        /\ TableOrDefault(fi.risk, Upper(nm_args.fixed_income_type), "risk", DefaultFiRisk)
        /\ EntryOrDefault(rho)
        /\ IF eq.return # NaN /\ fi.return # NaN
           THEN nm_result.blended_return = Some(w1 * Val(eq.return) + w2 * Val(fi.return))
           ELSE nm_result.blended_return = NaN
        /\ IF finite /\ var >= 0 THEN nm_result.blended_var = Some(var)
           ELSE nm_result.blended_var = NaN

FullEquity ==
    nm_args.equity_allocation = AllocDen /\ nm_args.fixed_income_allocation = 0

\* the blended risk equals the equity risk (NaN when that is NaN)
RiskIsEquityRisk ==
    IF nm_result.equity.risk = NaN THEN nm_result.blended_var = NaN
    ELSE nm_result.blended_var =
            Some(10 * AllocDen * AllocDen
                 * Val(nm_result.equity.risk) * Val(nm_result.equity.risk))

\* C22 as stated: blended_return and blended_risk follow the two-asset
\* formulas on the table values (defaults for unknown names) and the matrix
\* entry (0.2 when absent or missing), and with allocation 1.0 / 0.0 the
\* blended risk equals the equity risk.
C22_Original ==
    BlendDone => /\ BlendFormulas
                 /\ FullEquity => RiskIsEquityRisk

\* C22 amended: the formulas hold as stated, a known name with a NaN table
\* value keeping the NaN; with allocation 1.0 / 0.0 the blended risk equals
\* the equity risk when the fixed-income risk is a number, and is NaN when
\* the fixed-income risk is NaN.
C22_Amended ==
    BlendDone => /\ BlendFormulas
                 /\ FullEquity =>
                       IF nm_result.fixed_income.risk # NaN THEN RiskIsEquityRisk
                       ELSE nm_result.blended_var = NaN

\* allocation 1.0 / 0.0 on known assets with numeric risks
C22_Witness ==
    /\ BlendDone /\ FullEquity
    /\ nm_args.equity_type = "global" /\ nm_args.fixed_income_type = "GLOBAL AGGREGATE"
    /\ nm_result.equity.risk = Some(20) /\ nm_result.fixed_income.risk = Some(20)
    /\ nm_result.blended_var = Some(10 * AllocDen * AllocDen * 400)

\* an unknown equity name and a missing matrix entry: the defaults
C22_WitnessDefaults ==
    /\ BlendDone /\ nm_args.equity_type = "ZZZ"
    /\ nm_result.equity.return = Some(DefaultEqRet)
    /\ nm_result.equity.risk = Some(DefaultEqRisk)
    /\ nm_args.correlation_matrix.labels = {"GLOBAL", "GLOBAL AGGREGATE"}
    /\ nm_result.correlation = DefaultCorr
    /\ nm_result.blended_var # NaN /\ nm_result.fixed_income.type = "GLOBAL AGGREGATE"
    /\ nm_result.fixed_income.risk = Some(20) /\ ~FullEquity
    /\ nm_args.equity_allocation > 0

(***************************************************************************)
(* Claims about detect_inefficiencies                                      *)
(***************************************************************************)
FlagDone == nm_op = "detect_inefficiencies" /\ nm_pc = "done"

HasColumns == nm_args.holdings.columns = {"cur", "prop"}

FlaggedAssets == {nm_result[k].asset : k \in 1 .. Len(nm_result)}

\* the total of a column, missing cells counting 0
ColumnTotal(col) ==
    SumSeq([i \in 1 .. Len(nm_args.holdings.rows) |->
               Fill0(nm_args.holdings.rows[i][col])])

\* the stated weight of row i in a column: the cell over the column total
\* (a column of zeros has nothing to scale)
StatedWeight(i, col) ==
    <<Fill0(nm_args.holdings.rows[i][col]),
      IF ColumnTotal(col) > 0 THEN ColumnTotal(col) ELSE 1>>

\* |x - y| >= threshold on two ratios
StatedDeviation(x, y) ==
    Abs(x[1] * y[2] - y[1] * x[2]) * ThrDen >= nm_args.threshold * x[2] * y[2]

\* the stated benchmark weight of row i: the entry of the map, 0 without one
StatedBenchmark(i) ==
    LET name == nm_args.holdings.rows[i].name
        map == nm_args.benchmark_allocations
    IN  IF \E k \in DOMAIN map : Upper(k) = Upper(name)
        THEN <<map[CHOOSE k \in DOMAIN map : Upper(k) = Upper(name)], ThrDen>>
        ELSE <<0, ThrDen>>

StatedFlag(i) ==
    \/ StatedDeviation(StatedWeight(i, "prop"), StatedWeight(i, "cur"))
    \/ StatedDeviation(StatedWeight(i, "prop"), StatedBenchmark(i))

FlagsAsStated ==
    \A i \in 1 .. Len(nm_args.holdings.rows) :
        nm_args.holdings.rows[i].name \in FlaggedAssets <=> StatedFlag(i)

\* C23 as stated: with both columns present an asset is flagged exactly when
\* its normalised proposed weight is at least the threshold away from its
\* normalised current weight or from its benchmark weight (0 without one);
\* with a column missing the list is empty.
C23_Original ==
    FlagDone => IF HasColumns THEN FlagsAsStated ELSE nm_result = << >>

\* a column is well formed when it has a positive total or no missing cell
WellFormed(col) ==
    \/ ColumnTotal(col) > 0
    \/ \A i \in 1 .. Len(nm_args.holdings.rows) : nm_args.holdings.rows[i][col] # NaN

\* C23 on well-formed columns: the stated rule decides every flag
C23_WellFormed ==
    FlagDone => IF HasColumns
                THEN (WellFormed("cur") /\ WellFormed("prop")) => FlagsAsStated
                ELSE nm_result = << >>

\* one asset flagged on the threshold exactly and the other not flagged
C23_Witness ==
    /\ FlagDone /\ HasColumns
    /\ nm_args.threshold = ThrDen \div 2
    /\ nm_args.holdings.rows[1].cur = Some(1) /\ nm_args.holdings.rows[2].cur = Some(3)
    /\ nm_args.holdings.rows[1].prop = Some(3) /\ nm_args.holdings.rows[2].prop = Some(1)
    /\ DOMAIN nm_args.benchmark_allocations = {"em"}
    /\ FlaggedAssets = {"GLOBAL", "EM"}

(***************************************************************************)
(* Claims about calculate_var_cvar                                         *)
(***************************************************************************)
VarDone == nm_op = "calculate_var_cvar" /\ nm_pc = "done"

\* the non-missing observations of the input
Observed == {i \in 1 .. Len(nm_args.returns) : nm_args.returns[i] # NaN}

AllZero ==
    /\ nm_result.var[1] = 0 /\ nm_result.cvar[1] = 0
    /\ nm_result.var_annualized.base[1] = 0
    /\ nm_result.cvar_annualized.base[1] = 0

\* the figures are percentile figures of the observations: var lies between
\* the two observations whose ranks surround (1 - confidence) * (n - 1), cvar
\* is the mean of the observations not above var, and both are annualised by
\* the periods
PercentileFigures ==
    LET var == nm_result.var
        tail == {i \in Observed : Val(nm_args.returns[i]) * var[2] <= var[1]}
        below == {i \in Observed : Val(nm_args.returns[i]) * var[2] < var[1]}
        alpha == <<nm_args.confidence_level[2] - nm_args.confidence_level[1],
                   nm_args.confidence_level[2]>>
    IN  /\ "confidence_level" \in DOMAIN nm_result
        /\ tail # {}
        /\ \E i \in Observed : Val(nm_args.returns[i]) * var[2] >= var[1]
        /\ Cardinality(below) * alpha[2]
              <= alpha[1] * (Cardinality(Observed) - 1) + alpha[2]
        /\ Cardinality(tail) * alpha[2] > alpha[1] * (Cardinality(Observed) - 1)
        /\ nm_result.cvar[2] = Cardinality(tail)
        /\ nm_result.cvar[1] * var[2] <= var[1] * nm_result.cvar[2]
        /\ nm_result.var_annualized = [base |-> var, sqrt_of |-> nm_args.periods_per_year]
        /\ nm_result.cvar_annualized =
              [base |-> nm_result.cvar, sqrt_of |-> nm_args.periods_per_year]

\* C24: with fewer than 10 non-missing observations var, cvar, var_annualized
\* and cvar_annualized are all 0 and no percentile is computed; with at
\* least 10 the percentile figures are computed.
C24_ZeroBelowTen ==
    VarDone => IF Cardinality(Observed) < MinVarObs
               THEN AllZero /\ "confidence_level" \notin DOMAIN nm_result
               ELSE PercentileFigures

\* nine observations among ten cells, none of them 0, give zeros
C24_Witness ==
    /\ VarDone /\ Len(nm_args.returns) = MinVarObs
    /\ Cardinality(Observed) = MinVarObs - 1
    /\ AllZero

\* ten observations among twelve cells give a negative var
C24_WitnessTen ==
    /\ VarDone /\ Len(nm_args.returns) = MinVarObs + 2
    /\ Cardinality(Observed) = MinVarObs
    /\ nm_result.var[1] < 0 /\ nm_result.cvar[1] < 0
    /\ nm_result.var_annualized.sqrt_of = DefaultPeriods

(***************************************************************************)
(* Claims about the segments of calculate_segment_tracking_error           *)
(***************************************************************************)
SegDone == nm_op = "calculate_segment_tracking_error" /\ nm_pc = "done"

\* the assets the portfolio shares with the return series
SharedAssets == DOMAIN nm_args.portfolio_weights \cap ReturnColumns

InGrowth(a) == a \in nm_result.growth_assets
InStability(a) == a \in nm_result.stability_assets

\* the label the caller gave the asset, Growth without one
GivenLabel(a) ==
    IF nm_args.tier_mapping.given /\ a \in DOMAIN nm_args.tier_mapping.map
    THEN nm_args.tier_mapping.map[a]
    ELSE "Growth"

AllGrowthWithoutMapping ==
    ~nm_args.tier_mapping.given =>
        nm_result.growth_assets = SharedAssets /\ nm_result.stability_assets = {}

\* C26 as stated: for every tier mapping each shared asset is in exactly one
\* of the two segments, and without a mapping every asset is Growth.
C26_Original ==
    SegDone => /\ \A a \in SharedAssets : InGrowth(a) # InStability(a)
               /\ AllGrowthWithoutMapping

\* C26 amended: no asset is in both segments and only shared assets are in
\* one; a shared asset is in Growth exactly when its label is Growth or it
\* has none, in Stability-or-Diversified exactly when its label is Stability
\* or Diversified, and in neither segment when its label is anything else;
\* without a mapping every asset is Growth.
C26_Amended ==
    SegDone =>
        /\ nm_result.growth_assets \cap nm_result.stability_assets = {}
        /\ nm_result.growth_assets \cup nm_result.stability_assets \subseteq SharedAssets
        /\ \A a \in SharedAssets :
              /\ InGrowth(a) <=> GivenLabel(a) = "Growth"
              /\ InStability(a) <=> GivenLabel(a) \in {"Stability", "Diversified"}
        /\ nm_result.growth_assets_count = Cardinality(nm_result.growth_assets)
        /\ nm_result.stability_assets_count = Cardinality(nm_result.stability_assets)
        /\ AllGrowthWithoutMapping

\* a Diversified asset in the second segment next to an unmapped one in Growth
C26_Witness ==
    /\ SegDone /\ nm_args.tier_mapping.given
    /\ SharedAssets = {"GLOBAL", "EM"}
    /\ DOMAIN nm_args.tier_mapping.map = {"GLOBAL"}
    /\ nm_args.tier_mapping.map["GLOBAL"] = "Diversified"
    /\ nm_result.growth_assets = {"EM"} /\ nm_result.stability_assets = {"GLOBAL"}

\* no mapping: both shared assets are Growth
C26_WitnessNoMapping ==
    /\ SegDone /\ ~nm_args.tier_mapping.given
    /\ nm_result.growth_assets = {"GLOBAL", "EM"}
    /\ nm_result.stability_assets_count = 0

(***************************************************************************)
(* Claims about the order and the warm start of the lambda sweep           *)
(***************************************************************************)
\* the solves before the i-th that converged
ConvergedBefore(i) == {j \in 1 .. i - 1 : solved[j].success}

\* the stated initial guess of the i-th solve, before clipping: equal weights
\* until a lambda has converged, then the solution of the latest that did
StatedGuess(i) ==
    IF ConvergedBefore(i) = {} THEN [a \in 1 .. Len(sub) |-> One \div Len(sub)]
    ELSE solved[CHOOSE j \in ConvergedBefore(i) : \A k \in ConvergedBefore(i) : k <= j].x

StatedBounds == CombinedBounds(sub, caps_template)

WarmStartAsStated ==
    \A i \in 1 .. Len(solved) :
        \A a \in 1 .. Len(sub) :
            solved[i].x0[a] = Min(Max(StatedGuess(i)[a], StatedBounds[a][1]),
                                  Val(StatedBounds[a][2]))

\* the solves so far are the first lambdas of the grid, one solve each
GridOrder ==
    /\ Len(solved) <= Len(Geomspace(n_points))
    /\ \A i \in 1 .. Len(solved) : solved[i].lam = Geomspace(n_points)[i]
    /\ (EfDone /\ ~EfIsError) => Len(solved) = Len(Geomspace(n_points))

\* a step of the sweep solves the next lambda and keeps every earlier solve
NoBacktracking ==
    [][Len(solved') >= Len(solved)
       /\ \A i \in 1 .. Len(solved) : solved'[i] = solved[i]]_vars

\* C27: the sweep solves each lambda exactly once, in grid order, without
\* retry or backtracking, and terminates; each solve starts from the equal
\* weights until an earlier lambda has converged and from the solution of
\* the most recent converged lambda afterwards (never from a failed solve),
\* clipped into the bounds.
C27_SweepOrder ==
    /\ [](GridOrder /\ WarmStartAsStated)
    /\ NoBacktracking
    /\ <>EfDone

\* a finished sweep of three lambdas: the first converged, the second did not
\* and left another vector, the third started from the solution of the first
C27_Witness ==
    /\ EfDone /\ ~EfIsError /\ Len(solved) = 3
    /\ solved[1].success /\ ~solved[2].success /\ solved[3].success
    /\ solved[2].x # solved[1].x
    /\ solved[3].x0 = solved[1].x
    /\ solved[1].x0 # solved[1].x

(***************************************************************************)
(* Claims about the error field of a frontier without points               *)
(***************************************************************************)
\* C28 as stated: a returned result has an empty risks list exactly when it
\* carries a non-empty error field, also when every lambda of the sweep
\* failed to converge.
C28_Original ==
    EfDone => (ef_result.risks = << >> <=> (EfIsError /\ ef_result.error # ""))

\* what the call does: the error field is present exactly when the universe
\* has fewer than 2 assets; a sweep in which no lambda converged returns
\* empty lists and n_portfolios = 0 without an error field
C28_ErrorOnlyBeforeSweep ==
    EfDone => /\ EfIsError <=> Len(sub) < 2
              /\ (~EfIsError /\ ConvergedSoFar = << >>) =>
                    ef_result.risks = << >> /\ ef_result.n_portfolios = 0

\* a sweep of two lambdas over a universe whose upper bounds sum to less than
\* 1 returned without points and without an error field
C28_AllFailed ==
    /\ EfDone /\ ~EfIsError /\ Len(solved) = 2 /\ ef_result.risks = << >>
    /\ SumSeq([i \in 1 .. Len(sub) |-> Val(CombinedBounds(sub, caps_template)[i][2])]) < One

(***************************************************************************)
(* Claims about the reported selection method                              *)
(***************************************************************************)
\* the rule that chose the returned point
AppliedRule ==
    IF target_return # None THEN "target_return"
    ELSE IF target_risk # None THEN "target_risk"
    ELSE "max_sharpe"

Selected == opt_pc = "done" /\ "error" \notin DOMAIN opt_result

\* C29 as stated: the reported selection_method names the rule that chose
\* the returned point, for every target value including 0.
C29_Original ==
    Selected => opt_result.selection_method.rule = AppliedRule

\* what the call does: the report names the applied rule whenever the target
\* that was applied is not 0, and max_sharpe when no target is given
C29_NonZeroTargets ==
    (Selected /\ (target_return # None => Val(target_return) # 0)
              /\ (target_return = None /\ target_risk # None => Val(target_risk) # 0))
    => /\ opt_result.selection_method.rule = AppliedRule
       /\ AppliedRule = "target_return" =>
             opt_result.selection_method.value = target_return
       /\ AppliedRule = "target_risk" =>
             opt_result.selection_method.value = target_risk

\* a target return of 0 chose the point of least risk, which is not the point
\* of greatest Sharpe ratio, and the report says max_sharpe
C29_ZeroTarget ==
    /\ Selected /\ target_return = Some(0) /\ target_risk = None
    /\ opt_result.selection_method.rule = "max_sharpe"
    /\ opt_result.index # MaxSharpeIdx([i \in 1 .. Len(frontier_risks) |->
                              SharpeOf(frontier_returns[i], frontier_risks[i],
                                       risk_free_rate)]) - 1

(***************************************************************************)
(* Claims about the two factor decompositions                              *)
(***************************************************************************)
DecompDone == nm_op = "risk_decomposition" /\ nm_pc = "done"

\* the securities the portfolio holds that have betas
HeldSecurities == DOMAIN nm_args.portfolio_weights \cap BetaSecurities

\* C30 as stated: for the same weights, betas, factor covariance and
\* residual variances the portfolio total, systematic and specific risk of
\* the full decomposition equal those of the factor decomposition, whatever
\* assets the benchmark holds.
C30_Original ==
    DecompDone =>
        /\ nm_result.full.portfolio.total_risk = nm_result.factor.total_risk
        /\ nm_result.full.portfolio.systematic_risk = nm_result.factor.systematic_risk
        /\ nm_result.full.portfolio.specific_risk = nm_result.factor.specific_risk

\* what the calls do: the figures agree when the benchmark holds every
\* security of the portfolio; otherwise the full decomposition computes its
\* portfolio figures from the securities the benchmark holds too, as the
\* factor decomposition does for the portfolio cut down to them
C30_SharedSecurities ==
    DecompDone =>
        /\ HeldSecurities \subseteq DOMAIN nm_args.benchmark_weights =>
              nm_result.full.portfolio = nm_result.factor
        /\ nm_result.full.portfolio =
              compute_factor_risk_decomposition(
                  Restrict(nm_args.portfolio_weights,
                           HeldSecurities \cap DOMAIN nm_args.benchmark_weights),
                  nm_args.betas, nm_args.factor_cov, nm_args.residual_var)

\* a portfolio of GLOBAL and EM against a benchmark of GLOBAL alone: EM is
\* left out of the portfolio figures of the full decomposition
C30_Dropped ==
    /\ DecompDone
    /\ DOMAIN nm_args.portfolio_weights = {"GLOBAL", "EM"}
    /\ DOMAIN nm_args.benchmark_weights = {"GLOBAL"}
    /\ nm_args.portfolio_weights["EM"] = 1 /\ nm_args.portfolio_weights["GLOBAL"] = 1
    /\ nm_result.factor.specific_risk = <<4, 0>>
    /\ nm_result.full.portfolio.specific_risk = <<1, 0>>
    /\ nm_result.full.active.specific_risk[1] <= 1

(***************************************************************************)
(* Claims about calls that share their inputs                              *)
(***************************************************************************)
\* the holdings as the caller passed them, cells as plain numbers
PassedHoldings ==
    LET frame == nm_args.initial.holdings
    IN  [rows |-> [i \in 1 .. Len(frame.rows) |->
                      [name |-> frame.rows[i].name,
                       cur |-> IF frame.rows[i].cur = NaN THEN NaN
                               ELSE Some(Val(frame.rows[i].cur)[1]),
                       prop |-> IF frame.rows[i].prop = NaN THEN NaN
                                ELSE Some(Val(frame.rows[i].prop)[1])]],
         columns |-> frame.columns]

\* what the operation of call c returns when it runs alone on the inputs
RunAlone(c) ==
    IF nm_op[c] = "calculate_blended_benchmark"
    THEN calculate_blended_benchmark(
             nm_args.initial.cma_data, nm_args.initial.correlation_matrix,
             nm_args.initial.equity_type, nm_args.initial.fixed_income_type,
             nm_args.initial.equity_allocation, nm_args.initial.fixed_income_allocation)
    ELSE detect_inefficiencies(PassedHoldings, "cur", "prop",
                               nm_args.initial.benchmark_allocations,
                               nm_args.initial.threshold)

\* C25: after any sequence of statements of calls that share their inputs,
\* in any interleaving, the caller's tables and mappings are as they were
\* passed, and every call that has returned has returned what it returns
\* when run alone.
C25_FrameEffect ==
    /\ nm_args.shared = nm_args.initial
    /\ \A c \in Calls : nm_pc[c] = "done" => nm_result[c].out = RunAlone(c)

\* both calls have returned, one of each operation, each having rewritten a
\* frame of its own: upper-cased names, normalised columns, a new column
C25_Witness ==
    /\ nm_pc = [c \in Calls |-> "done"]
    /\ nm_op[1] = "calculate_blended_benchmark" /\ nm_op[2] = "detect_inefficiencies"
    /\ nm_result[1].table.value[1].name = "GLOBAL"
    /\ nm_args.shared.cma_data[1].name = "global"
    /\ nm_result[2].table.ref = "own"
    /\ "BENCHMARK" \in nm_result[2].table.value.columns
    /\ nm_result[2].table.value.rows[2].cur = Some(<<3, 4>>)
    /\ nm_args.shared.holdings.rows[2].cur = Some(<<3, 1>>)
    /\ Len(nm_result[2].out) = 2

\* two calls of detect_inefficiencies on the same holdings, both between two
\* assignments to their frames
C25_WitnessInterleaved ==
    /\ nm_op = [c \in Calls |-> "detect_inefficiencies"]
    /\ nm_pc[1] = "prop" /\ nm_pc[2] = "column"
    /\ nm_result[1].table.value # nm_result[2].table.value

====
